---- MODULE Spec2Model ----
(***************************************************************************)
(* A model of the cloud-insight report generator.                          *)
(*                                                                         *)
(*   Spec        the orchestrators: run_date_range_report, the scheduled   *)
(*               main loop around generate_site_report, the main.py loop    *)
(*               around process_site, generate_comprehensive_report         *)
(*   SpecApi     query_multiple_data / handle_api_error on one response     *)
(*   SpecCli     the date-range command line (validate_date, main)          *)
(*   SpecStats   calculate_statistics and detect_anomalies on one series    *)
(*   SpecPeriod  compare_time_periods on one series                         *)
(*   SpecSplit   compare_time_periods on short, dense series                *)
(*   SpecAnalyze analyze_metric / analyze_multiple_metrics on a fetch       *)
(*   SpecResample, SpecYAxis, SpecTicks   the chart builders of the         *)
(*               date-range report: resampling, Y bounds, X ticks           *)
(*   SpecLive    Spec with the loops taking their steps                     *)
(*   SpecFilter  the reporting orchestrators started with --site            *)
(*   SpecPdf     the comprehensive pipeline of one server up to its PDF     *)
(*   SpecPaths   the artifact files of two servers of one site              *)
(*   SpecGrid    the grid of the two dashboard builders                     *)
(*   SpecNaN     calculate_statistics on series with missing values         *)
(*                                                                         *)
(* Every specification uses its own group of variables and leaves the      *)
(* other groups at their idle values.                                      *)
(***************************************************************************)
EXTENDS Integers, Sequences, FiniteSets, TLC

VARIABLES
    \* ---- orchestrators
    orch,            \* which orchestrator runs
    nSites,          \* number of entries of target_sites
    sidx,            \* 1-based position of the site loop
    site,            \* configuration of the site the loop is at
    pc,              \* "site" | "server" | "done" | "aborted"
    k,               \* 1-based position of the server loop
    server_success,  \* servers counted as succeeded in the current site
    success_count,   \* sites counted as succeeded
    attempted,       \* servers of the current site a fetch was issued for
    outcome,         \* what the last server iteration ran into
    valid_seen,      \* a server of the current site returned a non-empty metric
    rendered_seen,   \* ... and its iteration also completed without raising
    skipped_sites,   \* sites left by a failed configuration check
    registered,      \* number of sites of the registry (sites.yaml)
    site_filter,     \* the --site argument: NoFilter or a site id
    target_sites,    \* the site ids the site loop runs over, in order
    fetched_sites,   \* site ids a fetch was issued for
    summary,         \* the summary.txt of the current site
    \* ---- API client
    response,        \* the HTTP response requests.post returned
    api_ret,         \* what query_multiple_data did with it
    \* ---- date-range command line
    argv,            \* <<start_date, end_date>> as typed
    exit_code,       \* main's return value
    report_run,      \* run_date_range_report was called
    \* ---- statistics
    df,              \* the metric's points, <<timestamp, value>> each
    threshold_warning,
    threshold_critical,
    period_days,
    op,              \* which function was applied to df
    ret,             \* its return value
    \* ---- analysis of a fetch result
    metrics_data,    \* the fetched metrics, [metric, dps] each
    \* ---- chart builders
    unit,            \* the metric's unit
    metric_name,     \* the metric's display name
    start_date,      \* requested range, as day numbers
    end_date,
    plot,            \* what was put on the axes
    \* ---- files and the server PDF
    server_names,    \* configured names of the servers of one site
    files,           \* paths of the image files on disk
    pdf,             \* what generate_server_report put in the document
    \* ---- dashboard grid
    dashboard        \* one call of a dashboard builder

orchVars == <<orch, nSites, sidx, site, pc, k, server_success, success_count,
              attempted, outcome, valid_seen, rendered_seen, skipped_sites,
              registered, site_filter, target_sites, fetched_sites, summary>>
apiVars  == <<response, api_ret>>
cliVars  == <<argv, exit_code, report_run>>
statVars == <<df, threshold_warning, threshold_critical, period_days, op, ret>>
analysisVars == <<metrics_data>>
chartVars == <<unit, metric_name, start_date, end_date, plot>>
fileVars == <<server_names, files, pdf>>
gridVars == <<dashboard>>
vars     == <<orchVars, apiVars, cliVars, statVars, analysisVars, chartVars,
              fileVars, gridVars>>

None == "None"

(***************************************************************************)
(* Bounds.                                                                 *)
(***************************************************************************)
MaxSites   == 2
MaxServers == 2
MaxMetrics == 2

(***************************************************************************)
(* Orchestrators.                                                          *)
(*                                                                         *)
(* A site entry is read when the site loop reaches it and never again, so  *)
(* the entry is drawn at that step.  A key (access_key, id, ...) is TRUE   *)
(* when it is present and non-empty, which is all the code tests.  A fetch *)
(* result is the list of the metrics returned, each TRUE when its 'dps'    *)
(* list is non-empty.                                                      *)
(***************************************************************************)
DateRange     == "run_date_range_report"
Scheduled     == "generate_site_report"
ProcessSite   == "process_site"
Comprehensive == "generate_comprehensive_report"
Orchestrators == {DateRange, Scheduled, ProcessSite, Comprehensive}

Servers == [id : BOOLEAN, name : BOOLEAN]

ServerLists == UNION {[1..n -> Servers] : n \in 0..MaxServers}

SiteConfigs ==
    [access_key : BOOLEAN, secret_key : BOOLEAN, cw_key : BOOLEAN,
     servers : ServerLists]

FetchResults == UNION {[1..n -> BOOLEAN] : n \in 0..MaxMetrics}

NoSite == [access_key |-> FALSE, secret_key |-> FALSE, cw_key |-> FALSE,
           servers |-> <<>>]

\* ConfigOK without the test of cw_key.
ConfigOK_NoCwKey(cfg) ==
    /\ cfg.access_key /\ cfg.secret_key
    /\ cfg.servers # <<>>

\* `if not (access_key and secret_key and cw_key)` and `if not servers`
ConfigOK(cfg) ==
    /\ cfg.access_key /\ cfg.secret_key /\ cfg.cw_key
    /\ cfg.servers # <<>>

\* `if not (server_id and server_name): continue`
ServerComplete(server) == server.id /\ server.name

\* valid_metrics: the metrics whose 'dps' is non-empty
ValidMetrics(result) == SelectSeq(result, LAMBDA m : m)

\* The dashboard builders turn a 1x1 grid into an array with np.array.
\* date_range_report.py imports numpy as np; visualizer.py does not, so
\* MetricsVisualizer.create_dashboard raises NameError for one metric.
DashboardRaises(o, num_metrics) ==
    CASE o = DateRange     -> FALSE
      [] o = Scheduled     -> num_metrics = 1
      [] o = Comprehensive -> num_metrics = 1
      [] OTHER             -> FALSE

\* Whether an exception is raised inside the body of the server loop:
\* fetch_raises is query_multiple_data raising, io_raises a plotting or
\* filesystem call of the body raising.
BodyRaises(o, fetch_raises, result, io_raises) ==
    CASE o = DateRange ->
           \/ fetch_raises
           \/ /\ ValidMetrics(result) # <<>>
              /\ io_raises \/ DashboardRaises(o, Len(ValidMetrics(result)))
      [] o = Scheduled ->
           \/ fetch_raises
           \/ result # <<>> /\ io_raises
           \/ /\ ValidMetrics(result) # <<>>
              /\ DashboardRaises(o, Len(ValidMetrics(result)))
      [] o = ProcessSite ->
           \/ fetch_raises
           \/ ValidMetrics(result) # <<>> /\ io_raises
      [] o = Comprehensive ->
           \/ fetch_raises
           \/ /\ result # <<>>
              /\ io_raises \/ DashboardRaises(o, Len(result))

\* HandlerCatches with run_date_range_report's try/except left out.
HandlerCatches_NoTry(o) == o \in Orchestrators \ {DateRange}

\* Every orchestrator wraps the body in try/except Exception (process_site
\* through fetch_recent_data), so no exception leaves the loop.
HandlerCatches(o) == o \in Orchestrators

\* ServerCounted without the filter of the empty metrics.
ServerCounted_NoFilter(o, fetch_raises, result, io_raises) ==
    /\ ~BodyRaises(o, fetch_raises, result, io_raises)
    /\ result # <<>>

\* Whether the iteration counts the server as succeeded / processed.
ServerCounted(o, fetch_raises, result, io_raises) ==
    /\ ~BodyRaises(o, fetch_raises, result, io_raises)
    /\ CASE o = DateRange     -> result # <<>> /\ ValidMetrics(result) # <<>>
         [] o = Scheduled     -> result # <<>> /\ ValidMetrics(result) # <<>>
         [] o = ProcessSite   -> result # <<>>
         [] o = Comprehensive -> result # <<>>

\* `if server_success > 0`, `return success_count > 0`,
\* `return len(servers_data) > 0`
SiteSucceeds(n) == n > 0

\* What the iteration ran into, by its inputs alone.
OutcomeOf(o, fetch_raises, result, io_raises) ==
    IF fetch_raises THEN "fetch_raises"
    ELSE IF result = <<>> THEN "empty_result"
    ELSE IF ValidMetrics(result) = <<>> THEN "all_empty"
    ELSE IF BodyRaises(o, fetch_raises, result, io_raises) THEN "render_raises"
    ELSE "success"

\* --site not given (args.site is None)
NoFilter == 0

\* The registry holds the sites 1..registered; a filter above that names a
\* site that is not registered.
SiteFilters(n) == {NoFilter} \cup 1..(n + 1)

Reporting == {DateRange, Scheduled}

\* The sites the site loop runs over.
\*   run_date_range_report:
\*     {site_name: sites[site_name]} if site_name and site_name in sites else sites
\*   scheduled main: the named site if it is registered, no site if it is not,
\*     every site without --site
TargetSites(o, f, n) ==
    LET all == [i \in 1..n |-> i]
    IN  CASE o = DateRange -> IF f # NoFilter /\ f \in 1..n THEN <<f>> ELSE all
          [] o = Scheduled -> IF f = NoFilter THEN all
                              ELSE IF f \in 1..n THEN <<f>> ELSE <<>>
          [] OTHER         -> all

\* No summary.txt written for the current site.
NoSummary == [written |-> 0, total |-> 0, succeeded |-> 0, failed |-> 0]

\* SummaryOf with the servers without id or name left out of the total.
SummaryOf_CompleteOnly(servers, count) ==
    [written |-> 1,
     total |-> Len(SelectSeq(servers, ServerComplete)),
     succeeded |-> count,
     failed |-> Len(SelectSeq(servers, ServerComplete)) - count]

\* generate_site_report's summary: "서버 수", "성공 서버 수", "실패 서버 수".
SummaryOf(servers, count) ==
    [written |-> 1, total |-> Len(servers), succeeded |-> count,
     failed |-> Len(servers) - count]

\* Only generate_site_report writes a summary file.
WritesSummary(o) == o = Scheduled

OrchIdle ==
    /\ orch = None /\ nSites = 0 /\ sidx = 0 /\ site = NoSite /\ pc = "idle"
    /\ k = 0 /\ server_success = 0 /\ success_count = 0 /\ attempted = <<>>
    /\ outcome = "none" /\ valid_seen = FALSE /\ rendered_seen = FALSE
    /\ skipped_sites = 0
    /\ registered = 0 /\ site_filter = NoFilter /\ target_sites = <<>>
    /\ fetched_sites = {} /\ summary = NoSummary

NoResponse == [status_code |-> 0, json_ok |-> FALSE, body |-> <<>>]

\* api_ret before the call; after it, called is TRUE, raised tells whether
\* the call raised, and data is what it returned when it did not.
NotCalled == [called |-> FALSE, raised |-> FALSE, data |-> <<>>]

ApiIdle == response = NoResponse /\ api_ret = NotCalled

\* exit_code while main has not returned
Running == -1

CliIdle == argv = <<>> /\ exit_code = Running /\ report_run = FALSE

\* A function of the data processor returning None.
Absent == [absent |-> TRUE]

\* A threshold is <<>> when it is not configured (None) and <<t>> otherwise.
StatIdle ==
    /\ df = <<>> /\ threshold_warning = <<>> /\ threshold_critical = <<>>
    /\ period_days = 0 /\ op = "none" /\ ret = Absent

AnalysisIdle == metrics_data = <<>>

\* Nothing drawn.
NoPlot == [drawn |-> FALSE]

ChartIdle ==
    /\ unit = "" /\ metric_name = "" /\ start_date = 0 /\ end_date = 0
    /\ plot = NoPlot

\* No document started.
NoPdf == [started |-> FALSE]

FileIdle == server_names = <<>> /\ files = {} /\ pdf = NoPdf

\* No dashboard builder called.
NoDashboard == [called |-> FALSE]

GridIdle == dashboard = NoDashboard

\* The state at the head of the site loop, once the registry and the filter
\* are known.
LoopStart ==
    /\ target_sites = TargetSites(orch, site_filter, registered)
    /\ nSites = Len(target_sites)
    /\ sidx = 1 /\ site = NoSite /\ pc = (IF nSites = 0 THEN "done" ELSE "site")
    /\ k = 0 /\ server_success = 0 /\ success_count = 0 /\ attempted = <<>>
    /\ outcome = "none" /\ valid_seen = FALSE /\ rendered_seen = FALSE
    /\ skipped_sites = 0
    /\ fetched_sites = {} /\ summary = NoSummary
    /\ ApiIdle /\ CliIdle /\ StatIdle /\ AnalysisIdle /\ ChartIdle /\ FileIdle /\ GridIdle

\* generate_comprehensive_report is run for the one site named on its
\* command line; the other three loop over the registry.  No --site here.
Init ==
    /\ orch \in Orchestrators
    /\ registered \in 1..MaxSites
    /\ orch = Comprehensive => registered = 1
    /\ site_filter = NoFilter
    /\ LoopStart

\* A reporting orchestrator started with --site.
InitFilter ==
    /\ orch \in Reporting
    /\ registered \in 1..MaxSites
    /\ site_filter \in SiteFilters(registered) \ {NoFilter}
    /\ LoopStart

\* NextSite with the site loop never ending.
NextSite_NeverDone == "site"

NextSite == IF sidx = nSites THEN "done" ELSE "site"

\* The site loop reaches a site whose configuration fails a check:
\* `continue` / `return False`, nothing is counted.
SkipSite ==
    /\ pc = "site"
    /\ \E cfg \in SiteConfigs :
         /\ ~ConfigOK(cfg)
         /\ site' = cfg
    /\ sidx' = sidx + 1
    /\ pc' = NextSite
    /\ k' = 0 /\ server_success' = 0 /\ attempted' = <<>>
    /\ outcome' = "none" /\ valid_seen' = FALSE /\ rendered_seen' = FALSE
    /\ skipped_sites' = skipped_sites + 1
    /\ summary' = NoSummary
    /\ UNCHANGED <<orch, nSites, success_count, registered, site_filter,
                   target_sites, fetched_sites>>
    /\ UNCHANGED <<apiVars, cliVars, statVars, analysisVars, chartVars, fileVars, gridVars>>

\* The site loop reaches a site that passes the checks: the server loop starts.
EnterSite ==
    /\ pc = "site"
    /\ \E cfg \in SiteConfigs :
         /\ ConfigOK(cfg)
         /\ site' = cfg
    /\ pc' = "server"
    /\ k' = 1 /\ server_success' = 0 /\ attempted' = <<>>
    /\ outcome' = "none" /\ valid_seen' = FALSE /\ rendered_seen' = FALSE
    /\ summary' = NoSummary
    /\ UNCHANGED <<orch, nSites, sidx, success_count, skipped_sites, registered,
                   site_filter, target_sites, fetched_sites>>
    /\ UNCHANGED <<apiVars, cliVars, statVars, analysisVars, chartVars, fileVars, gridVars>>

\* One iteration of the server loop on a server without id or name.
SkipServer ==
    /\ pc = "server" /\ k <= Len(site.servers)
    /\ ~ServerComplete(site.servers[k])
    /\ k' = k + 1
    /\ outcome' = "skipped"
    /\ UNCHANGED <<orch, nSites, sidx, site, pc, server_success, success_count,
                   attempted, valid_seen, rendered_seen, skipped_sites,
                   registered, site_filter, target_sites, fetched_sites, summary>>
    /\ UNCHANGED <<apiVars, cliVars, statVars, analysisVars, chartVars, fileVars, gridVars>>

\* One iteration of the server loop on a complete server: the fetch, the
\* filter of the empty metrics, the rendering, the count.
ProcessServer ==
    /\ pc = "server" /\ k <= Len(site.servers)
    /\ ServerComplete(site.servers[k])
    /\ \E fetch_raises \in BOOLEAN, result \in FetchResults, io_raises \in BOOLEAN :
         LET raised  == BodyRaises(orch, fetch_raises, result, io_raises)
             counted == ServerCounted(orch, fetch_raises, result, io_raises)
             valid   == ~fetch_raises /\ ValidMetrics(result) # <<>>
         IN  /\ fetch_raises => result = <<>>
             /\ attempted' = Append(attempted, k)
             /\ fetched_sites' = fetched_sites \cup {target_sites[sidx]}
             /\ outcome' = OutcomeOf(orch, fetch_raises, result, io_raises)
             /\ server_success' = IF counted THEN server_success + 1
                                  ELSE server_success
             /\ valid_seen' = (valid_seen \/ valid)
             /\ rendered_seen' = (rendered_seen \/ (valid /\ ~raised))
             /\ IF raised /\ ~HandlerCatches(orch)
                THEN pc' = "aborted" /\ k' = k
                ELSE pc' = pc /\ k' = k + 1
    /\ UNCHANGED <<orch, nSites, sidx, site, success_count, skipped_sites,
                   registered, site_filter, target_sites, summary>>
    /\ UNCHANGED <<apiVars, cliVars, statVars, analysisVars, chartVars, fileVars, gridVars>>

\* The server loop is over: the site is counted or not, the site loop moves on.
FinishSite ==
    /\ pc = "server" /\ k > Len(site.servers)
    /\ success_count' = IF SiteSucceeds(server_success) THEN success_count + 1
                        ELSE success_count
    /\ summary' = IF WritesSummary(orch)
                  THEN [SummaryOf(site.servers, server_success)
                          EXCEPT !.written = summary.written + 1]
                  ELSE summary
    /\ sidx' = sidx + 1
    /\ pc' = NextSite
    /\ UNCHANGED <<orch, nSites, site, k, server_success, attempted, outcome,
                   valid_seen, rendered_seen, skipped_sites, registered,
                   site_filter, target_sites, fetched_sites>>
    /\ UNCHANGED <<apiVars, cliVars, statVars, analysisVars, chartVars, fileVars, gridVars>>

Next == SkipSite \/ EnterSite \/ SkipServer \/ ProcessServer \/ FinishSite

Spec == Init /\ [][Next]_vars

(***************************************************************************)
(* Claims about the orchestrators.                                         *)
(***************************************************************************)
RECURSIVE CompleteBefore(_, _)
\* The positions before n of the servers that have both id and name, ascending.
CompleteBefore(servers, n) ==
    IF n <= 1 THEN <<>>
    ELSE LET rest == CompleteBefore(servers, n - 1)
         IN  IF servers[n - 1].id /\ servers[n - 1].name
             THEN Append(rest, n - 1) ELSE rest

\* C1: in run_date_range_report and generate_site_report, whatever the
\* outcomes of the servers so far (fetch raises, empty result, all metrics
\* empty, rendering raises, success), a fetch has been issued for exactly the
\* servers with id and name that the loop has passed, in configuration order;
\* no outcome aborts the run, and a finished run has passed every site.
C1_EveryServerAttempted ==
    orch \in Reporting =>
        /\ pc # "aborted"
        /\ pc = "server" => attempted = CompleteBefore(site.servers, k)
        /\ pc = "done" => sidx = nSites + 1

\* A second site is being processed after a first one in which nothing
\* succeeded, and in it a server succeeds after a sibling failed.
C1_Witness ==
    /\ orch = DateRange /\ sidx = 2 /\ success_count = 0 /\ skipped_sites = 0
    /\ pc = "server" /\ attempted = <<1, 2>>
    /\ server_success = 1 /\ outcome = "success"

SiteTallied == pc = "server" /\ pc' \in {"site", "done"}

\* C2 as stated: a site is counted as successful exactly when one of its
\* servers returned at least one metric with a non-empty point list.
C2_CountedIffValidMetric ==
    [][(orch \in Reporting /\ SiteTallied) =>
          ((success_count' = success_count + 1) <=> valid_seen)]_vars

\* C2, amended: a site is counted as successful exactly when one of its
\* servers returned at least one metric with a non-empty point list and the
\* iteration of that server completed without raising; otherwise the count
\* of successful sites is left as it was.
C2_CountedIffRendered ==
    [][(orch \in Reporting /\ SiteTallied) =>
          /\ (success_count' = success_count + 1) <=> rendered_seen
          /\ ~rendered_seen => success_count' = success_count]_vars

\* The run is over; its first site was counted, its second was not although
\* one of its servers returned a valid metric (its rendering raised).
C2_Witness ==
    /\ orch \in Reporting /\ pc = "done" /\ nSites = 2 /\ skipped_sites = 0
    /\ valid_seen /\ ~rendered_seen /\ success_count = 1

\* C3: in every orchestrator a server whose fetch returns a non-empty list
\* of metrics that are all empty is not counted, and the loop moves on.
C3_AllEmptyNotCounted ==
    [][(pc = "server" /\ attempted' # attempted /\ outcome' = "all_empty") =>
          /\ server_success' = server_success
          /\ pc' = "server" /\ k' = k + 1]_vars

BadConfig(cfg) ==
    \/ ~cfg.access_key \/ ~cfg.secret_key \/ ~cfg.cw_key
    \/ Len(cfg.servers) = 0

\* C4: when the site loop reaches a site without access_key, secret_key or
\* cw_key, or without servers, no fetch is issued for the site, the count of
\* successful sites is left as it was and the loop moves on to the next
\* site; a finished run has passed every site.
C4_BadSiteSkipped ==
    [][/\ (pc = "site" /\ BadConfig(site')) =>
            /\ attempted' = <<>>
            /\ success_count' = success_count
            /\ sidx' = sidx + 1
            /\ pc' = IF sidx = nSites THEN "done" ELSE "site"
       /\ BadConfig(site') => attempted' = <<>>
       /\ pc' = "done" => sidx' = nSites + 1]_vars

\* A site with a missing cw_key was skipped, and the site after it has had a
\* fetch issued.
C4_Witness ==
    /\ skipped_sites = 1 /\ sidx = 2 /\ pc = "server" /\ attempted # <<>>

(***************************************************************************)
(* API client: query_multiple_data on the response of one POST.            *)
(*                                                                         *)
(* A response is its status code, whether its body parses as JSON, and the *)
(* metric list the body holds when it does.                                *)
(***************************************************************************)
StatusCodes == {200, 201, 204, 299, 300, 302, 304, 399, 400, 401, 404, 500, 503}

Responses == [status_code : StatusCodes, json_ok : BOOLEAN, body : FetchResults]

\* handle_api_error with every status outside 2xx treated as an error.
HandleApiErrorRaises_Not2xx(resp) ==
    resp.status_code < 200 \/ resp.status_code >= 300

\* handle_api_error: `if response.status_code >= 400: ... raise Exception`
HandleApiErrorRaises(resp) == resp.status_code >= 400

\* query_multiple_data: handle_api_error(response), then response.json(),
\* which raises when the body is not JSON.
QueryMultipleData(resp) ==
    IF HandleApiErrorRaises(resp) \/ ~resp.json_ok
    THEN [called |-> TRUE, raised |-> TRUE, data |-> <<>>]
    ELSE [called |-> TRUE, raised |-> FALSE, data |-> resp.body]

InitApi ==
    /\ response \in Responses
    /\ api_ret = NotCalled
    /\ OrchIdle /\ CliIdle /\ StatIdle /\ AnalysisIdle /\ ChartIdle /\ FileIdle /\ GridIdle

Query ==
    /\ ~api_ret.called
    /\ api_ret' = QueryMultipleData(response)
    /\ UNCHANGED <<response, orchVars, cliVars, statVars, analysisVars, chartVars, fileVars, gridVars>>

NextApi == Query

SpecApi == InitApi /\ [][NextApi]_vars

\* C5: a response with a status code outside 2xx makes query_multiple_data
\* raise: no data is returned, and run_date_range_report does not count the
\* server; only a 2xx response's data is returned to the caller.
C5_Non2xxIsFetchError ==
    (api_ret.called /\ response.status_code \notin 200..299) =>
        /\ api_ret.raised
        /\ ~ServerCounted(DateRange, api_ret.raised, api_ret.data, FALSE)

(***************************************************************************)
(* Date-range command line.                                                *)
(*                                                                         *)
(* A date argument is the sequence of its characters.  strptime compiles   *)
(* '%Y%m%d' to the regular expression                                      *)
(*   (\d\d\d\d)(1[0-2]|0[1-9]|[1-9])(3[01]|[12]\d|0[1-9]|[1-9]| [1-9])     *)
(* takes its first match at the start of the string, refuses a string with *)
(* characters left after the match, and then builds the date.              *)
(***************************************************************************)
MaxTail == 4

Digits == {"0", "1", "2", "3", "4", "5", "6", "7", "8", "9"}

DigitVal(c) ==
    CASE c = "0" -> 0 [] c = "1" -> 1 [] c = "2" -> 2 [] c = "3" -> 3
      [] c = "4" -> 4 [] c = "5" -> 5 [] c = "6" -> 6 [] c = "7" -> 7
      [] c = "8" -> 8 [] c = "9" -> 9

YearTyped == <<"2", "0", "2", "5">>

TailChars == {"0", "1", "3", "x"}

\* The arguments tried: the year 2025 followed by up to MaxTail characters.
DateArgs ==
    {YearTyped \o tail : tail \in UNION {[1..n -> TailChars] : n \in 0..MaxTail}}

At(s, i) == IF i <= Len(s) THEN s[i] ELSE "$"

NonZero(c) == c \in Digits \ {"0"}

\* The lengths the month group can take at position 5, in the order the
\* alternatives 1[0-2] | 0[1-9] | [1-9] are tried.
MonthLens(s) ==
    (IF \/ At(s, 5) = "1" /\ At(s, 6) \in {"0", "1", "2"}
        \/ At(s, 5) = "0" /\ NonZero(At(s, 6))
     THEN <<2>> ELSE <<>>)
    \o (IF NonZero(At(s, 5)) THEN <<1>> ELSE <<>>)

\* The length the day group takes at position q (0: no alternative of
\* 3[01] | [12]\d | 0[1-9] | [1-9] | ' '[1-9] matches there).
DayLen(s, q) ==
    IF At(s, q) = "3" /\ At(s, q + 1) \in {"0", "1"} THEN 2
    ELSE IF At(s, q) \in {"1", "2"} /\ At(s, q + 1) \in Digits THEN 2
    ELSE IF At(s, q) = "0" /\ NonZero(At(s, q + 1)) THEN 2
    ELSE IF NonZero(At(s, q)) THEN 1
    ELSE IF At(s, q) = " " /\ NonZero(At(s, q + 1)) THEN 2
    ELSE 0

Number(s, from, len) ==
    IF len = 1 THEN DigitVal(s[from])
    ELSE 10 * DigitVal(s[from]) + DigitVal(s[from + 1])

IsLeap(y) == (y % 4 = 0 /\ y % 100 # 0) \/ y % 400 = 0

DaysInMonth(y, m) ==
    IF m = 2 THEN (IF IsLeap(y) THEN 29 ELSE 28)
    ELSE IF m \in {4, 6, 9, 11} THEN 30 ELSE 31

\* datetime.strptime(s, '%Y%m%d'): the date <<y, m, d>>, or <<>> where it
\* raises ValueError.
Strptime(s) ==
    IF ~(\A i \in 1..4 : At(s, i) \in Digits) THEN <<>>
    ELSE
      LET ms   == MonthLens(s)
          good == {j \in 1..Len(ms) : DayLen(s, 5 + ms[j]) > 0}
      IN  IF good = {} THEN <<>>
          ELSE
            LET j    == CHOOSE x \in good : \A z \in good : x <= z
                ml   == ms[j]
                dl   == DayLen(s, 5 + ml)
                dpos == IF At(s, 5 + ml) = " " THEN 6 + ml ELSE 5 + ml
                y    == 1000 * DigitVal(s[1]) + 100 * DigitVal(s[2])
                          + 10 * DigitVal(s[3]) + DigitVal(s[4])
                m    == Number(s, 5, ml)
                d    == Number(s, dpos, IF At(s, 5 + ml) = " " THEN 1 ELSE dl)
            IN  IF 4 + ml + dl # Len(s) THEN <<>>
                ELSE IF y < 1 \/ d > DaysInMonth(y, m) THEN <<>>
                ELSE <<y, m, d>>

\* validate_date with a test of the length added.
ValidateDate_Strict(s) == Len(s) = 8 /\ Strptime(s) # <<>>

\* validate_date: True unless strptime raises ValueError
ValidateDate(s) == Strptime(s) # <<>>

\* datetime comparison `start_date > end_date`
DateAfter(a, b) ==
    \/ a[1] > b[1]
    \/ a[1] = b[1] /\ a[2] > b[2]
    \/ a[1] = b[1] /\ a[2] = b[2] /\ a[3] > b[3]

InitCli ==
    /\ argv \in DateArgs \X DateArgs
    /\ exit_code = Running /\ report_run = FALSE
    /\ OrchIdle /\ ApiIdle /\ StatIdle /\ AnalysisIdle /\ ChartIdle /\ FileIdle /\ GridIdle

\* main(): the two format checks, the order check, then the report; an
\* exception of run_date_range_report is caught and turned into exit code 1.
Main ==
    /\ exit_code = Running
    /\ IF ~ValidateDate(argv[1]) \/ ~ValidateDate(argv[2])
       THEN exit_code' = 1 /\ report_run' = FALSE
       ELSE IF DateAfter(Strptime(argv[1]), Strptime(argv[2]))
       THEN exit_code' = 1 /\ report_run' = FALSE
       ELSE /\ report_run' = TRUE
            /\ \E run_raises \in BOOLEAN :
                 exit_code' = IF run_raises THEN 1 ELSE 0
    /\ UNCHANGED <<argv, orchVars, apiVars, statVars, analysisVars, chartVars, fileVars, gridVars>>

NextCli == Main

SpecCli == InitCli /\ [][NextCli]_vars

\* A date typed as YYYYMMDD: eight digits, a month 01..12, a day of it.
IsYYYYMMDD(s) ==
    /\ Len(s) = 8
    /\ \A i \in 1..8 : s[i] \in Digits
    /\ Number(s, 5, 2) \in 1..12
    /\ Number(s, 7, 2) >= 1
    /\ Number(s, 7, 2) <= DaysInMonth(1000 * DigitVal(s[1]) + 100 * DigitVal(s[2])
                                        + 10 * DigitVal(s[3]) + DigitVal(s[4]),
                                      Number(s, 5, 2))

\* s as the number YYYYMMDD, for s typed as YYYYMMDD
AsNumber(s) ==
    10000 * (1000 * DigitVal(s[1]) + 100 * DigitVal(s[2]) + 10 * DigitVal(s[3])
             + DigitVal(s[4]))
    + 100 * Number(s, 5, 2) + Number(s, 7, 2)

\* C6: main returns non-zero without calling run_date_range_report when the
\* start or the end date is not a valid YYYYMMDD date or when start > end;
\* otherwise (start <= end, start = end included) the report is run.
C6_InvalidDatesRejected ==
    exit_code # Running =>
        IF ~IsYYYYMMDD(argv[1]) \/ ~IsYYYYMMDD(argv[2])
        THEN exit_code # 0 /\ ~report_run
        ELSE IF AsNumber(argv[1]) > AsNumber(argv[2])
        THEN exit_code # 0 /\ ~report_run
        ELSE report_run


(***************************************************************************)
(* MetricsDataProcessor: calculate_statistics and detect_anomalies.        *)
(*                                                                         *)
(* A data frame is a sequence of rows <<timestamp, value>>.  Timestamps    *)
(* are in hours, values are integers.  Quantiles are kept exactly: a       *)
(* quantile q is held as the integer 100 * q, which is exact because the   *)
(* interpolation weight (n - 1) * p / 100 is a multiple of 1/100.          *)
(***************************************************************************)
MaxLen == 4
MaxVal == 3

ThresholdChoices == {<<>>, <<0>>, <<2>>}

StatFrames ==
    UNION {{[i \in 1..n |-> <<i - 1, vals[i]>>] : vals \in [1..n -> 0..MaxVal]}
           : n \in 0..MaxLen}

ValuesOf(d) == [i \in 1..Len(d) |-> d[i][2]]

TimesOf(d) == {d[i][1] : i \in 1..Len(d)}

SetMin(S) == CHOOSE x \in S : \A y \in S : x <= y

SetMax(S) == CHOOSE x \in S : \A y \in S : x >= y

RECURSIVE SeqSum(_)
SeqSum(s) == IF s = <<>> THEN 0 ELSE Head(s) + SeqSum(Tail(s))

SortedValues(d) == SortSeq(ValuesOf(d), LAMBDA a, b : a < b)

\* The interpolation of Series.quantile(p / 100) with the values taken in
\* row order: position (n - 1) * p / 100, weight its fractional part.
Quantile100_Unsorted(d, p) ==
    LET x    == ValuesOf(d)
        h    == (Len(x) - 1) * p
        lo   == (h \div 100) + 1
        frac == h % 100
    IN  IF frac = 0 THEN 100 * x[lo]
        ELSE 100 * x[lo] + frac * (x[lo + 1] - x[lo])

\* 100 * df['value'].quantile(p / 100), interpolation 'linear' (the default):
\* over the sorted values, position (n - 1) * p / 100.
Quantile100(d, p) ==
    LET x    == SortedValues(d)
        h    == (Len(x) - 1) * p
        lo   == (h \div 100) + 1
        frac == h % 100
    IN  IF frac = 0 THEN 100 * x[lo]
        ELSE 100 * x[lo] + frac * (x[lo + 1] - x[lo])

\* 100 * df['value'].median(): the middle value, or the mean of the two
\* middle values.
Median100(d) ==
    LET x == SortedValues(d)
        n == Len(x)
    IN  IF n % 2 = 1 THEN 100 * x[(n + 1) \div 2]
        ELSE 50 * (x[n \div 2] + x[(n \div 2) + 1])

\* A row <<timestamp>> is a point whose value is NaN (a null in 'dps').
IsNaN(row) == Len(row) = 1

\* The rows a pandas reduction works on: skipna=True is the default of
\* min, max, mean, median and quantile.
SkipNaN(d) == SelectSeq(d, LAMBDA row : ~IsNaN(row))

\* mean is sum / (number of values that are not NaN); std, a square root,
\* and the per-day, per-hour and per-weekday means are not represented.
\* count is len(df), the number of rows.  When every value is NaN the
\* reductions return NaN (nan is TRUE).
CalculateStatistics(d) ==
    IF d = <<>> THEN Absent
    ELSE LET x == SkipNaN(d)
         IN  IF x = <<>>
             THEN [absent     |-> FALSE,
                   nan        |-> TRUE,
                   count      |-> Len(d),
                   first_time |-> SetMin(TimesOf(d)),
                   last_time  |-> SetMax(TimesOf(d))]
             ELSE [absent        |-> FALSE,
                   nan           |-> FALSE,
                   count         |-> Len(d),
                   min           |-> SetMin({x[i][2] : i \in 1..Len(x)}),
                   max           |-> SetMax({x[i][2] : i \in 1..Len(x)}),
                   sum           |-> SeqSum(ValuesOf(x)),
                   values        |-> Len(x),
                   median        |-> Median100(x),
                   first_time    |-> SetMin(TimesOf(d)),
                   last_time     |-> SetMax(TimesOf(d)),
                   percentile_10 |-> Quantile100(x, 10),
                   percentile_25 |-> Quantile100(x, 25),
                   percentile_75 |-> Quantile100(x, 75),
                   percentile_90 |-> Quantile100(x, 90),
                   percentile_95 |-> Quantile100(x, 95),
                   percentile_99 |-> Quantile100(x, 99)]

Configured_Truthy(threshold) == threshold # <<>> /\ threshold[1] # 0

\* threshold is not None
Configured(threshold) == threshold # <<>>

\* df[df['value'] >= threshold]
AtOrAbove(d, threshold) == SelectSeq(d, LAMBDA row : row[2] >= threshold[1])

IsOutlier_Inclusive(value, q1, q3) ==
    LET iqr == q3 - q1
    IN  200 * value <= 2 * q1 - 3 * iqr \/ 200 * value >= 2 * q3 + 3 * iqr

\* value < q1 - 1.5 * iqr or value > q3 + 1.5 * iqr, with q1 and q3 held as
\* 100 * q: both sides are multiplied by 200.
IsOutlier(value, q1, q3) ==
    LET iqr == q3 - q1
    IN  200 * value < 2 * q1 - 3 * iqr \/ 200 * value > 2 * q3 + 3 * iqr

DetectAnomalies(d, warn, crit) ==
    IF d = <<>> THEN Absent
    ELSE LET q1 == Quantile100(d, 25)
             q3 == Quantile100(d, 75)
         IN  [absent   |-> FALSE,
              warning  |-> IF Configured(warn) THEN AtOrAbove(d, warn) ELSE <<>>,
              critical |-> IF Configured(crit) THEN AtOrAbove(d, crit) ELSE <<>>,
              outliers |-> SelectSeq(d, LAMBDA row : IsOutlier(row[2], q1, q3))]

InitStats ==
    /\ df \in StatFrames
    /\ threshold_warning \in ThresholdChoices
    /\ threshold_critical \in ThresholdChoices
    /\ period_days = 0 /\ op = "none" /\ ret = Absent
    /\ OrchIdle /\ ApiIdle /\ CliIdle /\ AnalysisIdle /\ ChartIdle /\ FileIdle /\ GridIdle

CallCalculateStatistics ==
    /\ op = "none"
    /\ op' = "calculate_statistics"
    /\ ret' = CalculateStatistics(df)
    /\ UNCHANGED <<df, threshold_warning, threshold_critical, period_days>>
    /\ UNCHANGED <<orchVars, apiVars, cliVars, analysisVars, chartVars, fileVars, gridVars>>

CallDetectAnomalies ==
    /\ op = "none"
    /\ op' = "detect_anomalies"
    /\ ret' = DetectAnomalies(df, threshold_warning, threshold_critical)
    /\ UNCHANGED <<df, threshold_warning, threshold_critical, period_days>>
    /\ UNCHANGED <<orchVars, apiVars, cliVars, analysisVars, chartVars, fileVars, gridVars>>

NextStats == CallCalculateStatistics \/ CallDetectAnomalies

SpecStats == InitStats /\ [][NextStats]_vars


(***************************************************************************)
(* Claims about calculate_statistics and detect_anomalies.                 *)
(***************************************************************************)

\* C7: for every non-empty series calculate_statistics returns
\* min <= percentile_10 <= percentile_25 <= median <= percentile_75 <=
\* percentile_90 <= percentile_95 <= percentile_99 <= max, and count is the
\* number of points.  (The percentiles and the median are held times 100.)
C7_OrderedSummary ==
    (op = "calculate_statistics" /\ df # <<>>) =>
        /\ ~ret.absent
        /\ 100 * ret.min <= ret.percentile_10
        /\ ret.percentile_10 <= ret.percentile_25
        /\ ret.percentile_25 <= ret.median
        /\ ret.median <= ret.percentile_75
        /\ ret.percentile_75 <= ret.percentile_90
        /\ ret.percentile_90 <= ret.percentile_95
        /\ ret.percentile_95 <= ret.percentile_99
        /\ ret.percentile_99 <= 100 * ret.max
        /\ ret.count = Len(df)

\* A series given out of order whose summary values are all different.
C7_Witness ==
    /\ op = "calculate_statistics" /\ Len(df) = 4
    /\ df[1][2] > df[2][2] /\ df[3][2] > df[4][2] /\ df[2][2] < df[3][2]
    /\ 100 * ret.min < ret.percentile_10
    /\ ret.percentile_10 < ret.percentile_25
    /\ ret.percentile_25 < ret.median
    /\ ret.median < ret.percentile_75
    /\ ret.percentile_75 < ret.percentile_90
    /\ ret.percentile_90 < ret.percentile_95
    /\ ret.percentile_95 < ret.percentile_99
    /\ ret.percentile_99 < 100 * ret.max

\* The k-th smallest value of a series, by counting.
OrderStatistic(d, j) ==
    CHOOSE v \in {d[i][2] : i \in 1..Len(d)} :
        /\ Cardinality({i \in 1..Len(d) : d[i][2] < v}) < j
        /\ j <= Cardinality({i \in 1..Len(d) : d[i][2] <= v})

\* Four times the linear-interpolation quantile q / 4 (q = 1 for Q1, 3 for
\* Q3): position q * (n - 1) / 4 among the order statistics.
Quartile4(d, q) ==
    LET pos == q * (Len(d) - 1)
        lo  == (pos \div 4) + 1
        r   == pos % 4
    IN  IF r = 0 THEN 4 * OrderStatistic(d, lo)
        ELSE (4 - r) * OrderStatistic(d, lo) + r * OrderStatistic(d, lo + 1)

\* value < Q1 - 1.5 * IQR or value > Q3 + 1.5 * IQR, both sides times 8.
OutsideFences(d, value) ==
    LET Q1  == Quartile4(d, 1)
        Q3  == Quartile4(d, 3)
        IQR == Q3 - Q1
    IN  8 * value < 2 * Q1 - 3 * IQR \/ 8 * value > 2 * Q3 + 3 * IQR

AllEqual(d) == \A i, j \in 1..Len(d) : d[i][2] = d[j][2]

\* C8: for every non-empty series, whatever the thresholds, the outliers list
\* of detect_anomalies is exactly the points with value < Q1 - 1.5 * IQR or
\* value > Q3 + 1.5 * IQR, in order, and it is empty when all values are equal.
C8_OutliersAreFenceBreakers ==
    (op = "detect_anomalies" /\ df # <<>>) =>
        /\ ~ret.absent
        /\ ret.outliers = SelectSeq(df, LAMBDA row : OutsideFences(df, row[2]))
        /\ AllEqual(df) => ret.outliers = <<>>

\* Some points are outliers and some are not, with no threshold configured.
C8_Witness ==
    /\ op = "detect_anomalies"
    /\ threshold_warning = <<>> /\ threshold_critical = <<>>
    /\ ~ret.absent
    /\ ret.outliers # <<>>
    /\ Len(ret.outliers) < Len(df)

ValueFilter(d, threshold) ==
    IF threshold = <<>> THEN <<>>
    ELSE SelectSeq(d, LAMBDA row : row[2] >= threshold[1])

\* C9: the warning list is exactly the points with value >= threshold_warning
\* and the critical list exactly those with value >= threshold_critical, each
\* independent of the other, so a point at or above both thresholds is in
\* both lists; a threshold that is not configured gives an empty list.
C9_ThresholdListsAreFilters ==
    (op = "detect_anomalies" /\ df # <<>>) =>
        /\ ~ret.absent
        /\ ret.warning = ValueFilter(df, threshold_warning)
        /\ ret.critical = ValueFilter(df, threshold_critical)
        /\ threshold_warning = <<>> => ret.warning = <<>>
        /\ threshold_critical = <<>> => ret.critical = <<>>
        /\ \A i \in 1..Len(df) :
              ( /\ threshold_warning # <<>> /\ threshold_critical # <<>>
                /\ df[i][2] >= threshold_warning[1]
                /\ df[i][2] >= threshold_critical[1] )
              => /\ \E j \in 1..Len(ret.warning) : ret.warning[j] = df[i]
                 /\ \E j \in 1..Len(ret.critical) : ret.critical[j] = df[i]

\* Both thresholds configured: some points are in both lists and the others
\* are in the critical list only.
C9_Witness ==
    /\ op = "detect_anomalies"
    /\ threshold_warning = <<2>> /\ threshold_critical = <<0>>
    /\ ~ret.absent
    /\ Len(ret.warning) > 0
    /\ Len(ret.warning) < Len(ret.critical)
    /\ Len(ret.critical) = Len(df)


(***************************************************************************)
(* MetricsDataProcessor.compare_time_periods.                              *)
(*                                                                         *)
(* Timestamps are in hours since the midnight that starts day 0; the date  *)
(* of a row is its day number.  A fetched series is in timestamp order.    *)
(***************************************************************************)
HoursPerDay == 24
DefaultPeriodDays == 7

MaxDay       == 14
PeriodMaxLen == 2

TimesOfDay    == {0, 12}
PeriodValues  == {-1, 0, 1}
PeriodChoices == {1, 2, DefaultPeriodDays}

Timestamps == {day * HoursPerDay + h : day \in 0..MaxDay, h \in TimesOfDay}

PeriodFrames ==
    UNION {{d \in [1..n -> Timestamps \X PeriodValues] :
               \A i \in 1..(n - 1) : d[i][1] <= d[i + 1][1]}
           : n \in 0..PeriodMaxLen}

\* df['datetime'].dt.date
DateOf(timestamp) == timestamp \div HoursPerDay

TooShort_Inclusive(date_range, days) == date_range <= days * 2

TooShort_Never(date_range, days) == FALSE

\* date_range < period_days * 2
TooShort(date_range, days) == date_range < days * 2

\* The statistics of one period: mean is sum / count, std is not
\* represented.  A period without rows has no dates or extremes; the fields
\* are then 0 and count tells.
PeriodStats(rows) ==
    IF rows = <<>>
    THEN [count |-> 0, sum |-> 0, max |-> 0, min |-> 0,
          start_date |-> 0, end_date |-> 0]
    ELSE [count      |-> Len(rows),
          sum        |-> SeqSum(ValuesOf(rows)),
          max        |-> SetMax({rows[i][2] : i \in 1..Len(rows)}),
          min        |-> SetMin({rows[i][2] : i \in 1..Len(rows)}),
          start_date |-> DateOf(SetMin(TimesOf(rows))),
          end_date   |-> DateOf(SetMax(TimesOf(rows)))]

\* (current - previous) / previous * 100 as the fraction num / den, or
\* float('inf') when previous is 0.
PercentChange(cur_num, cur_den, prev_num, prev_den) ==
    IF prev_num # 0
    THEN [inf |-> FALSE,
          num |-> 100 * (cur_num * prev_den - prev_num * cur_den),
          den |-> cur_den * prev_num]
    ELSE [inf |-> TRUE, num |-> 1, den |-> 0]

InCurrent_Inclusive(date, mid_date) == date >= mid_date

\* df['datetime'].dt.date > mid_date
InCurrent(date, mid_date) == date > mid_date

\* df['datetime'].dt.date <= mid_date
InPrevious(date, mid_date) == date <= mid_date

CompareTimePeriods(d, days) ==
    IF d = <<>> THEN Absent
    ELSE LET min_date   == DateOf(SetMin(TimesOf(d)))
             max_date   == DateOf(SetMax(TimesOf(d)))
             date_range == max_date - min_date
             mid_date   == max_date - days
             current    == PeriodStats(SelectSeq(d, LAMBDA row : InCurrent(DateOf(row[1]), mid_date)))
             previous   == PeriodStats(SelectSeq(d, LAMBDA row : InPrevious(DateOf(row[1]), mid_date)))
         IN  IF TooShort(date_range, days) THEN Absent
             ELSE [absent          |-> FALSE,
                   current_period  |-> current,
                   previous_period |-> previous,
                   changes |->
                     [mean_change |-> PercentChange(current.sum, current.count,
                                                    previous.sum, previous.count),
                      max_change  |-> PercentChange(current.max, 1, previous.max, 1),
                      min_change  |-> PercentChange(current.min, 1, previous.min, 1)]]

InitPeriod ==
    /\ df \in PeriodFrames
    /\ threshold_warning = <<>> /\ threshold_critical = <<>>
    /\ period_days = 0 /\ op = "none" /\ ret = Absent
    /\ OrchIdle /\ ApiIdle /\ CliIdle /\ AnalysisIdle /\ ChartIdle /\ FileIdle /\ GridIdle

CallCompareTimePeriods ==
    /\ op = "none"
    /\ \E days \in PeriodChoices :
          /\ period_days' = days
          /\ ret' = CompareTimePeriods(df, days)
    /\ op' = "compare_time_periods"
    /\ UNCHANGED <<df, threshold_warning, threshold_critical>>
    /\ UNCHANGED <<orchVars, apiVars, cliVars, analysisVars, chartVars, fileVars, gridVars>>

NextPeriod == CallCompareTimePeriods

SpecPeriod == InitPeriod /\ [][NextPeriod]_vars

\* The calendar days a series covers, first and last included.
CalendarDays(d) ==
    LET dates == {d[i][1] \div HoursPerDay : i \in 1..Len(d)}
    IN  SetMax(dates) - SetMin(dates) + 1

\* C10: compare_time_periods returns None if and only if the series is empty
\* or (max_date - min_date) in whole days is < 2 * period_days; with
\* period_days = 7 a series covering 10 calendar days gives None and one
\* covering 15 calendar days gives a result.
C10_AbsentIffShort ==
    op = "compare_time_periods" =>
        /\ ret.absent <=> (df = <<>> \/ CalendarDays(df) - 1 < 2 * period_days)
        /\ (df # <<>> /\ period_days = 7 /\ CalendarDays(df) = 10) => ret.absent
        /\ (df # <<>> /\ period_days = 7 /\ CalendarDays(df) = 15) => ~ret.absent

\* A 15-day series compared over the default 7 days gives a result.
C10_Witness ==
    /\ op = "compare_time_periods" /\ period_days = DefaultPeriodDays
    /\ df # <<>> /\ df[Len(df)][1] \div HoursPerDay = df[1][1] \div HoursPerDay + 14
    /\ ~ret.absent
    /\ ret.current_period.count > 0 /\ ret.previous_period.count > 0


(***************************************************************************)
(* compare_time_periods over short, denser series: up to SplitMaxLen rows  *)
(* within a few days, so that rows fall on the boundary day itself.        *)
(***************************************************************************)
SplitMaxDay == 4
SplitMaxLen == 3

SplitTimestamps == {day * HoursPerDay + h : day \in 0..SplitMaxDay, h \in TimesOfDay}

SplitFrames ==
    UNION {{d \in [1..n -> SplitTimestamps \X PeriodValues] :
               \A i \in 1..(n - 1) : d[i][1] <= d[i + 1][1]}
           : n \in 0..SplitMaxLen}

InitSplit ==
    /\ df \in SplitFrames
    /\ threshold_warning = <<>> /\ threshold_critical = <<>>
    /\ period_days = 0 /\ op = "none" /\ ret = Absent
    /\ OrchIdle /\ ApiIdle /\ CliIdle /\ AnalysisIdle /\ ChartIdle /\ FileIdle /\ GridIdle

NextSplit == CallCompareTimePeriods

SpecSplit == InitSplit /\ [][NextSplit]_vars

\* The rows of a series dated after (later = TRUE) or on or before
\* (later = FALSE) the day max_date - days.
RowsBySide(d, days, later) ==
    LET max_date == SetMax({d[i][1] \div HoursPerDay : i \in 1..Len(d)})
    IN  {i \in 1..Len(d) : ((d[i][1] \div HoursPerDay) > max_date - days) <=> later}

\* C11: whenever compare_time_periods returns a result, the current period is
\* exactly the points dated after max_date - period_days and the previous
\* period exactly those dated on or before it; the periods are disjoint,
\* cover every point, and their counts add up to the number of points.
C11_PeriodsPartitionSeries ==
    (op = "compare_time_periods" /\ ~ret.absent) =>
        LET cur  == RowsBySide(df, period_days, TRUE)
            prev == RowsBySide(df, period_days, FALSE)
        IN  /\ ret.current_period.count = Cardinality(cur)
            /\ ret.previous_period.count = Cardinality(prev)
            /\ cur # {} => /\ ret.current_period.start_date = SetMin({df[i][1] \div HoursPerDay : i \in cur})
                           /\ ret.current_period.end_date = SetMax({df[i][1] \div HoursPerDay : i \in cur})
                           /\ ret.current_period.max = SetMax({df[i][2] : i \in cur})
            /\ prev # {} => /\ ret.previous_period.start_date = SetMin({df[i][1] \div HoursPerDay : i \in prev})
                            /\ ret.previous_period.end_date = SetMax({df[i][1] \div HoursPerDay : i \in prev})
                            /\ ret.previous_period.max = SetMax({df[i][2] : i \in prev})
            /\ ret.current_period.count + ret.previous_period.count = Len(df)

\* A result for a series with a row dated exactly max_date - period_days.
C11_Witness ==
    /\ op = "compare_time_periods" /\ ~ret.absent /\ period_days = 1
    /\ ret.previous_period.end_date = ret.current_period.end_date - period_days
    /\ ret.previous_period.start_date < ret.previous_period.end_date
    /\ ret.current_period.count = 1 /\ ret.previous_period.count = 2

Sign(x) == IF x > 0 THEN 1 ELSE IF x < 0 THEN -1 ELSE 0

\* change (a fraction num / den, or an infinity whose sign is that of num)
\* is what the claim asks for current cur, previous prev.
ChangeAsClaimed(change, cur, prev) ==
    IF prev # 0
    THEN ~change.inf /\ change.den # 0
         /\ change.num * prev = 100 * (cur - prev) * change.den
    ELSE change.inf /\ Sign(change.num) = Sign(cur - prev)

\* C12: each percent change of compare_time_periods (mean, max, min) is
\* (current - previous) / previous * 100 when previous is not zero, and an
\* infinity with the sign of (current - previous) when previous is zero.
\* (The means are compared as sum / count, cleared of denominators.)
C12_ChangeKeepsSign ==
    (op = "compare_time_periods" /\ ~ret.absent
        /\ ret.current_period.count > 0 /\ ret.previous_period.count > 0) =>
        LET c == ret.current_period
            p == ret.previous_period
        IN  /\ ChangeAsClaimed(ret.changes.max_change, c.max, p.max)
            /\ ChangeAsClaimed(ret.changes.min_change, c.min, p.min)
            /\ IF p.sum # 0
               THEN /\ ~ret.changes.mean_change.inf
                    /\ ret.changes.mean_change.den # 0
                    /\ ret.changes.mean_change.num * p.sum * c.count
                         = 100 * (c.sum * p.count - p.sum * c.count)
                               * ret.changes.mean_change.den
               ELSE /\ ret.changes.mean_change.inf
                    /\ Sign(ret.changes.mean_change.num) = Sign(c.sum)


(***************************************************************************)
(* MetricsDataProcessor.analyze_metric and analyze_multiple_metrics.       *)
(*                                                                         *)
(* A fetched metric is [metric |-> key, dps |-> rows]; a metric without a  *)
(* 'dps' entry is treated like one whose dps is empty, as the code does.   *)
(* metrics_info holds thresholds for InfoKey only; the other keys have no  *)
(* entry, which leaves their thresholds None.                              *)
(***************************************************************************)
MetricKeys == {"CpuUtilization", "MemUsage", "DiskReadBytes"}

InfoKey == "CpuUtilization"

AnalyzeFrames == {<<>>, <<<<0, 1>>>>, <<<<0, 0>>, <<24, 2>>>>}

FetchedMetrics == [metric : MetricKeys, dps : AnalyzeFrames]

FetchedLists == UNION {[1..n -> FetchedMetrics] : n \in 0..MaxMetrics}

\* process_metric_data: None (here <<>>) for missing or empty dps, else the
\* data frame.
ProcessMetricData(metric_data) ==
    IF metric_data.dps = <<>> THEN <<>> ELSE metric_data.dps

\* metric_info.get('threshold_...') through metrics_info_dict.get(key, {})
ThresholdFor(key, threshold) == IF key = InfoKey THEN threshold ELSE <<>>

AnalyzeMetric(metric_data, warn, crit) ==
    LET frame == ProcessMetricData(metric_data)
        w     == ThresholdFor(metric_data.metric, warn)
        c     == ThresholdFor(metric_data.metric, crit)
    IN  IF frame = <<>> THEN Absent
        ELSE [absent            |-> FALSE,
              metric_key        |-> metric_data.metric,
              data_points       |-> Len(frame),
              start             |-> SetMin(TimesOf(frame)),
              end               |-> SetMax(TimesOf(frame)),
              duration_hours    |-> SetMax(TimesOf(frame)) - SetMin(TimesOf(frame)),
              statistics        |-> CalculateStatistics(frame),
              anomalies         |-> DetectAnomalies(frame, w, c),
              period_comparison |-> CompareTimePeriods(frame, DefaultPeriodDays)]

Kept_Always(analysis) == TRUE

\* if analysis:
Kept(analysis) == ~analysis.absent

\* results after the first n metrics of the loop; a later metric with the
\* same key replaces the earlier entry.
RECURSIVE Analyses(_, _, _, _)
Analyses(mds, n, warn, crit) ==
    IF n = 0 THEN <<>>
    ELSE LET results  == Analyses(mds, n - 1, warn, crit)
             analysis == AnalyzeMetric(mds[n], warn, crit)
         IN  IF Kept(analysis)
             THEN [key \in (DOMAIN results) \cup {mds[n].metric} |->
                      IF key = mds[n].metric THEN analysis ELSE results[key]]
             ELSE results

AnalyzeMultipleMetrics(mds, warn, crit) ==
    IF mds = <<>> THEN Absent
    ELSE [absent |-> FALSE, results |-> Analyses(mds, Len(mds), warn, crit)]

InitAnalyze ==
    /\ metrics_data \in FetchedLists
    /\ threshold_warning \in ThresholdChoices
    /\ threshold_critical \in ThresholdChoices
    /\ df = <<>> /\ period_days = 0 /\ op = "none" /\ ret = Absent
    /\ OrchIdle /\ ApiIdle /\ CliIdle /\ ChartIdle /\ FileIdle /\ GridIdle

\* analyze_metric on the first fetched metric.
CallAnalyzeMetric ==
    /\ op = "none" /\ metrics_data # <<>>
    /\ op' = "analyze_metric"
    /\ ret' = AnalyzeMetric(metrics_data[1], threshold_warning, threshold_critical)
    /\ UNCHANGED <<df, threshold_warning, threshold_critical, period_days>>
    /\ UNCHANGED <<orchVars, apiVars, cliVars, analysisVars, chartVars, fileVars, gridVars>>

\* generate_comprehensive_report analyses a fetch result only when it is
\* not empty (if not result: continue).
CallAnalyzeMultipleMetrics ==
    /\ op = "none" /\ metrics_data # <<>>
    /\ op' = "analyze_multiple_metrics"
    /\ ret' = AnalyzeMultipleMetrics(metrics_data, threshold_warning, threshold_critical)
    /\ UNCHANGED <<df, threshold_warning, threshold_critical, period_days>>
    /\ UNCHANGED <<orchVars, apiVars, cliVars, analysisVars, chartVars, fileVars, gridVars>>

NextAnalyze == CallAnalyzeMetric \/ CallAnalyzeMultipleMetrics

SpecAnalyze == InitAnalyze /\ [][NextAnalyze]_vars

DistinctKeys(mds) ==
    \A i, j \in 1..Len(mds) : mds[i].metric = mds[j].metric => i = j

FracLess(a, b) == a[1] * b[2] < b[1] * a[2]

FracEq(a, b) == a[1] * b[2] = b[1] * a[2]

RECURSIVE GCD(_, _)
GCD(a, b) == IF b = 0 THEN a ELSE GCD(b, a % b)

\* The same fraction in lowest terms.
Lowest(a) ==
    LET g == GCD(IF a[1] < 0 THEN 0 - a[1] ELSE a[1], a[2])
    IN  <<a[1] \div g, a[2] \div g>>

FracSub(a, b) == Lowest(<<a[1] * b[2] - b[1] * a[2], a[2] * b[2]>>)

FracAdd(a, b) == Lowest(<<a[1] * b[2] + b[1] * a[2], a[2] * b[2]>>)

FracMax(a, b) == IF FracLess(a, b) THEN b ELSE a

FracMin(a, b) == IF FracLess(b, a) THEN b ELSE a

\* x * 0.1
Tenth(a) == Lowest(<<a[1], 10 * a[2]>>)

\* The greatest and the least of a non-empty set of fractions.
FracSetMax(S) == CHOOSE x \in S : \A y \in S : ~FracLess(x, y)

FracSetMin(S) == CHOOSE x \in S : \A y \in S : ~FracLess(y, x)

\* timedelta(days=7) of generate_date_ticks
TickStep == 7

\* The while loop of generate_date_ticks from the state (current, date_list).
RECURSIVE WeeklyFrom(_, _, _)
WeeklyFrom(current, end, date_list) ==
    IF current < end
    THEN LET next_date == current + TickStep
         IN  WeeklyFrom(next_date, end,
                        IF next_date <= end THEN Append(date_list, next_date)
                        ELSE date_list)
    ELSE date_list

GenerateDateTicks_NoEnd(start, end) == WeeklyFrom(start, end, <<start>>)

GenerateDateTicks(start, end) ==
    LET date_list == WeeklyFrom(start, end, <<start>>)
    IN  IF \E i \in 1..Len(date_list) : date_list[i] = end
        THEN date_list
        ELSE Append(date_list, end)

\* The month (1..12) and the day of the month of day number n.
RECURSIVE MonthDay(_, _)
MonthDay(n, m) ==
    IF n < DaysInMonth(2025, m) THEN <<m, n + 1>>
    ELSE MonthDay(n - DaysInMonth(2025, m), IF m = 12 THEN 1 ELSE m + 1)

\* d.day
DayOfMonth(n) == MonthDay(n, 1)[2]

\* mdates.DayLocator(bymonthday=days_to_show) on an axis from lo to hi: a
\* major tick on every date whose day of the month is one of days_to_show.
DayLocatorTicks(days_to_show, lo, hi) ==
    {n \in lo..hi : DayOfMonth(n) \in days_to_show}

ResampleRule_Exclusive(date_range) ==
    IF date_range < 7 THEN 2 ELSE IF date_range < 31 THEN 6 ELSE 12

\* The bucket width in hours: '2H', '6H' or '12H'.
ResampleRule(date_range) ==
    IF date_range <= 7 THEN 2 ELSE IF date_range <= 31 THEN 6 ELSE 12

\* (df['datetime'].max() - df['datetime'].min()).days + 1
DateRangeOf(d) ==
    ((SetMax(TimesOf(d)) - SetMin(TimesOf(d))) \div HoursPerDay) + 1

\* The start of the bucket of width w hours that holds timestamp ts; the
\* widths divide a day, so the buckets are aligned to midnight.
BucketOf(ts, w) == (ts \div w) * w

\* df['value'].resample(rule).mean().reset_index(): one row for every
\* bucket from the first timestamp's to the last one's, with the sum and
\* the number n of the bucket's values; the mean is sum / n, and NaN where
\* n = 0.
Resample(d, w) ==
    LET first == BucketOf(SetMin(TimesOf(d)), w)
        last  == BucketOf(SetMax(TimesOf(d)), w)
    IN  [j \in 1..(((last - first) \div w) + 1) |->
            LET rows == SelectSeq(d, LAMBDA row :
                            BucketOf(row[1], w) = first + (j - 1) * w)
            IN  [datetime |-> first + (j - 1) * w,
                 sum      |-> SeqSum(ValuesOf(rows)),
                 n        |-> Len(rows)]]

\* The means of the resampled rows that are not NaN.
ResampledMeans(resampled) ==
    {<<resampled[j].sum, resampled[j].n>> :
        j \in {i \in 1..Len(resampled) : resampled[i].n > 0}}


\* Values are whole multiples of 1 / ValueScale, held as the multiple: the
\* value 1 is ValueScale, 0.1 is <<ValueScale, 10>>.
ValueScale == 2000

\* Display names: the two the code singles out (CPU usage rate, memory usage
\* rate) and one more.
CpuName == "CPU"
MemoryName == "Memory"
MetricNames == {CpuName, MemoryName, "Disk"}

Units == {"%", "", "bytes"}

IsCpuOrMemory_AnyPercent(name) == TRUE

\* metric_name == <CPU usage rate> or metric_name == <memory usage rate>
IsCpuOrMemory(name) == name = CpuName \/ name = MemoryName

NearlyConstant_Never(min_value, max_value) == FALSE

\* data_range < 0.001 or min_value == max_value
NearlyConstant(min_value, max_value) ==
    \/ FracLess(FracSub(max_value, min_value), <<ValueScale, 1000>>)
    \/ FracEq(min_value, max_value)

PercentTop_Uncapped(max_value) == Lowest(<<11 * max_value, 10>>)

\* min(100, max_value * 1.1)
PercentTop(max_value) ==
    FracMin(<<100 * ValueScale, 1>>, Lowest(<<11 * max_value, 10>>))

\* The arguments of ax.set_ylim, <<bottom, top>>, for a non-empty frame d
\* and its resampled rows.
YLimits(d, resampled, u, name) ==
    IF u = "%"
    THEN IF IsCpuOrMemory(name)
         THEN <<<<0, 1>>, PercentTop(SetMax({d[i][2] : i \in 1..Len(d)}))>>
         ELSE <<<<0, 1>>, <<100 * ValueScale, 1>>>>
    ELSE LET min_value  == FracSetMin(ResampledMeans(resampled))
             max_value  == FracSetMax(ResampledMeans(resampled))
             data_range == FracSub(max_value, min_value)
         IN  IF NearlyConstant(min_value, max_value)
             THEN IF max_value[1] = 0
                  THEN <<<<0, 1>>, <<ValueScale, 1>>>>
                  ELSE LET margin == FracMax(Tenth(max_value), <<ValueScale, 10>>)
                       IN  <<FracMax(<<0, 1>>, FracSub(min_value, margin)),
                             FracAdd(max_value, margin)>>
             ELSE LET margin == Tenth(data_range)
                  IN  <<FracMax(<<0, 1>>, FracSub(min_value, margin)),
                        FracAdd(max_value, margin)>>

\* One pass of the loop body for a metric: resampling, X range and ticks,
\* Y range.  A metric without points is skipped and nothing is drawn.
DrawMetric ==
    /\ op = "none"
    /\ IF df = <<>>
       THEN op' = "skipped" /\ plot' = NoPlot
       ELSE /\ op' = "drawn"
            /\ LET date_ticks    == GenerateDateTicks(start_date, end_date)
                   days_to_show  == {DayOfMonth(date_ticks[i]) : i \in 1..Len(date_ticks)}
                   resample_rule == ResampleRule(DateRangeOf(df))
                   df_resampled  == Resample(df, resample_rule)
               IN  plot' = [drawn         |-> TRUE,
                            resample_rule |-> resample_rule,
                            df_resampled  |-> df_resampled,
                            date_ticks    |-> date_ticks,
                            xlim          |-> <<start_date, end_date + 1>>,
                            major_ticks   |-> DayLocatorTicks(days_to_show,
                                                 start_date, end_date + 1),
                            ylim          |-> YLimits(df, df_resampled, unit, metric_name)]
    /\ UNCHANGED <<df, threshold_warning, threshold_critical, period_days, ret>>
    /\ UNCHANGED <<unit, metric_name, start_date, end_date>>
    /\ UNCHANGED <<orchVars, apiVars, cliVars, analysisVars, fileVars, gridVars>>


(***************************************************************************)
(* Resampling: series of a few points spread over up to sixty days.        *)
(***************************************************************************)
ResampleMaxLen == 2

ResampleDays  == {0, 4, 6, 7, 19, 30, 31, 59}
ResampleHours == {0, 1, 5, 13}
ResampleValues == {10 * ValueScale, 20 * ValueScale}

ResampleStamps == {day * HoursPerDay + h : day \in ResampleDays, h \in ResampleHours}

ResampleFrames ==
    UNION {{d \in [1..n -> ResampleStamps \X ResampleValues] :
               \A i \in 1..(n - 1) : d[i][1] <= d[i + 1][1]}
           : n \in 0..ResampleMaxLen}

InitResample ==
    /\ df \in ResampleFrames
    /\ unit = "" /\ metric_name = CpuName
    /\ start_date = 0 /\ end_date = 6 /\ plot = NoPlot
    /\ threshold_warning = <<>> /\ threshold_critical = <<>>
    /\ period_days = 0 /\ op = "none" /\ ret = Absent
    /\ OrchIdle /\ ApiIdle /\ CliIdle /\ AnalysisIdle /\ FileIdle /\ GridIdle

NextResample == DrawMetric

SpecResample == InitResample /\ [][NextResample]_vars

\* Whole days between the first and the last timestamp of a series.
WholeDaysElapsed(d) == (d[Len(d)][1] - d[1][1]) \div HoursPerDay

\* C14: the bucket width follows days = whole days elapsed between the first
\* and the last timestamp, plus one: 2 hours for days <= 7, 6 hours for
\* 7 < days <= 31, 12 hours beyond; 5 days give 2h, 20 days 6h, 60 days 12h.
C14_BucketWidthByDays ==
    op = "drawn" =>
        LET days == WholeDaysElapsed(df) + 1
        IN  /\ days <= 7 => plot.resample_rule = 2
            /\ (7 < days /\ days <= 31) => plot.resample_rule = 6
            /\ days > 31 => plot.resample_rule = 12
            /\ days = 5 => plot.resample_rule = 2
            /\ days = 20 => plot.resample_rule = 6
            /\ days = 60 => plot.resample_rule = 12

\* A series of exactly 31 days, the last length that still gets 6 hours.
C14_Witness ==
    /\ op = "drawn" /\ Len(df) = 2
    /\ WholeDaysElapsed(df) + 1 = 31
    /\ plot.resample_rule = 6

\* The sum of the values of the rows of d with index in I.
RECURSIVE SumOver(_, _)
SumOver(d, I) ==
    IF I = {} THEN 0
    ELSE LET i == CHOOSE x \in I : TRUE
         IN  d[i][2] + SumOver(d, I \ {i})

\* The starts of the buckets of width w that hold a point of d.
OccupiedBuckets(d, w) == {(d[i][1] \div w) * w : i \in 1..Len(d)}

\* C15: the resampled sequence has an entry exactly for the buckets that hold
\* at least one point - none, NaN or other, for an empty bucket between the
\* first and the last timestamp - and each entry is the mean (sum / n) of the
\* points in [bucket_start, bucket_start + width).
C15_EmptyBucketsOmitted ==
    op = "drawn" =>
        LET w == plot.resample_rule
            r == plot.df_resampled
        IN  /\ {r[j].datetime : j \in 1..Len(r)} = OccupiedBuckets(df, w)
            /\ \A j \in 1..Len(r) :
                  LET inside == {i \in 1..Len(df) :
                                    /\ r[j].datetime <= df[i][1]
                                    /\ df[i][1] < r[j].datetime + w}
                  IN  /\ r[j].n = Cardinality(inside)
                      /\ r[j].n > 0
                      /\ r[j].sum = SumOver(df, inside)


(***************************************************************************)
(* Y range: hourly series of a few values, every unit and display name.    *)
(* The values include 0, a negative value, values above 100 and two values *)
(* half a thousandth apart (one unit of 1 / ValueScale).                                                *)
(***************************************************************************)
YMaxLen == 3

YValues == {0, 1, 0 - ValueScale, 5 * ValueScale, 5 * ValueScale + 1,
            50 * ValueScale, 120 * ValueScale}

YFrames ==
    UNION {{[i \in 1..n |-> <<i - 1, vals[i]>>] : vals \in [1..n -> YValues]}
           : n \in 0..YMaxLen}

InitYAxis ==
    /\ df \in YFrames
    /\ unit \in Units /\ metric_name \in MetricNames
    /\ start_date = 0 /\ end_date = 6 /\ plot = NoPlot
    /\ threshold_warning = <<>> /\ threshold_critical = <<>>
    /\ period_days = 0 /\ op = "none" /\ ret = Absent
    /\ OrchIdle /\ ApiIdle /\ CliIdle /\ AnalysisIdle /\ FileIdle /\ GridIdle

NextYAxis == DrawMetric

SpecYAxis == InitYAxis /\ [][NextYAxis]_vars

RawMax(d) == CHOOSE v \in {d[i][2] : i \in 1..Len(d)} : \A i \in 1..Len(d) : d[i][2] <= v

\* C16: for unit "%" and the display name of the CPU or the memory usage
\* rate the Y range is bottom = 0, top = min(100, 1.1 * maximum raw value),
\* for every non-empty series; a constant series of 50 gives top = 55.
C16_CpuMemoryTopFollowsData ==
    (op = "drawn" /\ unit = "%" /\ metric_name \in {CpuName, MemoryName}) =>
        /\ plot.ylim[1][1] = 0
        /\ IF 11 * RawMax(df) >= 1000 * ValueScale
           THEN FracEq(plot.ylim[2], <<100 * ValueScale, 1>>)
           ELSE FracEq(plot.ylim[2], <<11 * RawMax(df), 10>>)
        /\ (\A i \in 1..Len(df) : df[i][2] = 50 * ValueScale)
              => FracEq(plot.ylim[2], <<55 * ValueScale, 1>>)

\* The memory usage rate with values up to 50: the top is 55.
C16_Witness ==
    /\ op = "drawn" /\ unit = "%" /\ metric_name = MemoryName
    /\ Len(df) = 2 /\ df[1][2] = 50 * ValueScale /\ df[2][2] = 5 * ValueScale
    /\ FracEq(plot.ylim[2], <<55 * ValueScale, 1>>)

\* C17: for unit "%" and any other display name the Y range is exactly
\* [0, 100] for every non-empty series, whatever the values, values above
\* 100 or below 0 included.
C17_OtherPercentIsZeroToHundred ==
    (op = "drawn" /\ unit = "%" /\ metric_name \notin {CpuName, MemoryName}) =>
        /\ plot.ylim[1][1] = 0
        /\ FracEq(plot.ylim[2], <<100 * ValueScale, 1>>)

\* Another percentage with a value above 100 and a value below 0.
C17_Witness ==
    /\ op = "drawn" /\ unit = "%" /\ metric_name = "Disk"
    /\ \E i, j \in 1..Len(df) : df[i][2] > 100 * ValueScale /\ df[j][2] < 0
    /\ plot.ylim = <<<<0, 1>>, <<100 * ValueScale, 1>>>>

\* The means sum / n of the buckets of width w that hold a point of d.
BucketMeans(d, w) ==
    {<<SumOver(d, {i \in 1..Len(d) : (d[i][1] \div w) * w = b}),
       Cardinality({i \in 1..Len(d) : (d[i][1] \div w) * w = b})>> :
        b \in OccupiedBuckets(d, w)}

\* [max(0, lo - m), hi + m]
Padded(lo, hi, m) ==
    <<IF FracLess(FracSub(lo, m), <<0, 1>>) THEN <<0, 1>> ELSE FracSub(lo, m),
      FracAdd(hi, m)>>

SameRange(a, b) == FracEq(a[1], b[1]) /\ FracEq(a[2], b[2])

\* C18: for a unit other than "%", with min and max over the resampled
\* series: if max - min < 0.001 or min = max the range is [0, 1] when
\* max = 0 and else [max(0, min - m), max + m] with m = max(0.1 * max, 0.1);
\* otherwise it is [max(0, min - m), max + m] with m = 0.1 * (max - min).
\* A constant series of 5.0 gives [4.5, 5.5].
C18_GenericRangeHasMargin ==
    (op = "drawn" /\ unit # "%") =>
        LET means == BucketMeans(df, plot.resample_rule)
            lo    == CHOOSE x \in means : \A y \in means : ~FracLess(y, x)
            hi    == CHOOSE x \in means : \A y \in means : ~FracLess(x, y)
            range == FracSub(hi, lo)
            tenth == <<ValueScale, 10>>
            part  == Lowest(<<hi[1], 10 * hi[2]>>)
        IN  /\ IF FracLess(range, <<ValueScale, 1000>>) \/ FracEq(lo, hi)
               THEN IF hi[1] = 0
                    THEN SameRange(plot.ylim, <<<<0, 1>>, <<ValueScale, 1>>>>)
                    ELSE SameRange(plot.ylim,
                            Padded(lo, hi,
                                   IF FracLess(part, tenth) THEN tenth ELSE part))
               ELSE SameRange(plot.ylim,
                              Padded(lo, hi, Lowest(<<range[1], 10 * range[2]>>)))
            /\ (\A i \in 1..Len(df) : df[i][2] = 5 * ValueScale)
                  => SameRange(plot.ylim, <<<<45 * ValueScale, 10>>,
                                            <<55 * ValueScale, 10>>>>)

\* A constant series of 5.0.
C18_Witness ==
    /\ op = "drawn" /\ unit = "bytes" /\ Len(df) = 3
    /\ \A i \in 1..Len(df) : df[i][2] = 5 * ValueScale
    /\ SameRange(plot.ylim, <<<<45 * ValueScale, 10>>, <<55 * ValueScale, 10>>>>)


(***************************************************************************)
(* X range and ticks: every requested range start <= end (the command line *)
(* rejects start > end) within the first MaxTickDay days of the year.      *)
(***************************************************************************)
MaxTickDay == 45

InitTicks ==
    /\ df = <<<<0, ValueScale>>>>
    /\ unit = "" /\ metric_name = CpuName
    /\ start_date \in 0..MaxTickDay /\ end_date \in start_date..MaxTickDay
    /\ plot = NoPlot
    /\ threshold_warning = <<>> /\ threshold_critical = <<>>
    /\ period_days = 0 /\ op = "none" /\ ret = Absent
    /\ OrchIdle /\ ApiIdle /\ CliIdle /\ AnalysisIdle /\ FileIdle /\ GridIdle

NextTicks == DrawMetric

SpecTicks == InitTicks /\ [][NextTicks]_vars

\* C19: for start <= end generate_date_ticks returns a strictly increasing
\* list from start to end holding exactly the dates start + 7k <= end and end
\* itself; every gap is 7 days except possibly the last, of 1 to 7 days.
C19_WeeklyTicksFromStartToEnd ==
    op = "drawn" =>
        LET t == plot.date_ticks
        IN  /\ Len(t) >= 1 /\ t[1] = start_date /\ t[Len(t)] = end_date
            /\ \A i \in 1..(Len(t) - 1) : t[i] < t[i + 1]
            /\ {t[i] : i \in 1..Len(t)} =
                  {n \in start_date..end_date : (n - start_date) % 7 = 0}
                      \cup {end_date}
            /\ \A i \in 1..(Len(t) - 2) : t[i + 1] - t[i] = 7
            /\ Len(t) >= 2 =>
                  /\ t[Len(t)] - t[Len(t) - 1] >= 1
                  /\ t[Len(t)] - t[Len(t) - 1] <= 7

\* A range that is not a whole number of weeks: the last gap is shorter.
C19_Witness ==
    /\ op = "drawn" /\ start_date = 3 /\ end_date = 20
    /\ plot.date_ticks = <<3, 10, 17, 20>>

\* C20: the x-axis runs from start_date to end_date + 1 day and the major
\* ticks on the dates of the requested range are exactly the dates of
\* generate_date_ticks(start_date, end_date), also for a range that spans
\* more than one calendar month.
C20_MajorTicksAreWeekly ==
    op = "drawn" =>
        /\ plot.xlim = <<start_date, end_date + 1>>
        /\ \A n \in start_date..end_date :
              n \in plot.major_ticks
                 <=> \E i \in 1..Len(plot.date_ticks) : plot.date_ticks[i] = n


(***************************************************************************)
(* The orchestrators again: the summary file, termination, the site        *)
(* filter.  SpecLive is Spec with the loops taking their next step: they   *)
(* are plain `for` loops over finite lists, nothing suspends them.         *)
(***************************************************************************)
\* run_date_range_report without --site.
InitLive ==
    /\ orch = DateRange
    /\ registered \in 1..MaxSites
    /\ site_filter = NoFilter
    /\ LoopStart

NextLive == SkipSite \/ EnterSite \/ SkipServer \/ ProcessServer \/ FinishSite

SpecLive == InitLive /\ [][NextLive]_vars /\ WF_vars(NextLive)

NextFilter == SkipSite \/ EnterSite \/ SkipServer \/ ProcessServer \/ FinishSite

SpecFilter == InitFilter /\ [][NextFilter]_vars

\* The step is an iteration of the server loop that issued a fetch.
FetchStep == attempted' # attempted /\ attempted' # <<>>

\* The step leaves the server loop of a site that passed the checks.
SiteDone == pc = "server" /\ sidx' = sidx + 1

\* C22: generate_site_report counts a server exactly when its iteration
\* produced a valid metric and rendered without error, writes no summary
\* while the servers are processed, and on leaving the server loop writes
\* it once with total = len(servers), succeeded = that count, failed =
\* total - succeeded, so that 0 <= succeeded <= total.
C22_SummaryOncePerSite ==
    [][orch = Scheduled =>
         /\ FetchStep =>
              server_success' = server_success +
                                (IF outcome' = "success" THEN 1 ELSE 0)
         /\ (pc' = "server" /\ ~FetchStep) =>
              server_success' = (IF pc = "site" THEN 0 ELSE server_success)
         /\ pc' = "server" => summary' = NoSummary
         /\ SiteDone =>
              /\ summary' = [written   |-> 1,
                             total     |-> Len(site.servers),
                             succeeded |-> server_success,
                             failed    |-> Len(site.servers) - server_success]
              /\ summary'.succeeded + summary'.failed = summary'.total
              /\ 0 <= summary'.succeeded
              /\ summary'.succeeded <= summary'.total]_vars

\* A site of two servers, one without a name and one rendered, is summarised
\* as total 2, succeeded 1, failed 1.
C22_Witness ==
    /\ orch = Scheduled /\ summary.written = 1
    /\ summary.total = 2 /\ summary.succeeded = 1 /\ summary.failed = 1
    /\ \E i \in 1..Len(site.servers) : ~ServerComplete(site.servers[i])

\* The fetches of the current site are issued in strictly ascending order of
\* the servers.
Ascending(s) == \A i \in 1..(Len(s) - 1) : s[i] < s[i + 1]

\* C26: run_date_range_report terminates; the site loop only moves from a
\* site to the next one and the server loop from a server to the next one;
\* a fetch is issued for the server the loop is at and the loop then leaves
\* that server, so that on leaving a site that passed the checks the fetches
\* are exactly one per complete server.
C26_TerminatesOneFetchPerServer ==
    /\ [][orch = DateRange =>
            /\ sidx' \in {sidx, sidx + 1}
            /\ sidx' <= nSites + 1
            /\ (sidx' = sidx /\ pc = "server") => k' \in {k, k + 1}
            /\ FetchStep =>
                 /\ attempted' = Append(attempted, k)
                 /\ ServerComplete(site.servers[k])
                 /\ k' = k + 1
            /\ Ascending(attempted')
            /\ SiteDone =>
                 attempted = CompleteBefore(site.servers, Len(site.servers) + 1)]_vars
    /\ <>(pc = "done")

\* A run over two sites has ended, the second with both of its servers
\* fetched once.
C26_Witness ==
    /\ orch = DateRange /\ pc = "done" /\ nSites = 2 /\ sidx = 3
    /\ attempted = <<1, 2>>

\* C27: with a site filter, run_date_range_report fetches for no site but
\* the named one, whether or not that site is registered.
C27_FilterLimitsFetches ==
    (orch = DateRange /\ site_filter # NoFilter) =>
        fetched_sites \subseteq {site_filter}


(***************************************************************************)
(* Files.  A name is a sequence of characters, a path a sequence of        *)
(* components (os.path.join), a component a sequence of characters and of  *)
(* fixed pieces such as ".png".  The file system maps a path to one file;  *)
(* a file remembers which server's run wrote it (<<>>: it was there        *)
(* before).                                                                *)
(***************************************************************************)
MaxNameLen == 2

NameChars == {"a", " ", "_"}

ServerNames == UNION {[1..n -> NameChars] : n \in 1..MaxNameLen}

\* str.replace(' ', '_')
ReplaceSpaces(name) ==
    [i \in 1..Len(name) |-> IF name[i] = " " THEN "_" ELSE name[i]]

OutputDir == <<"output_dir">>
SiteName  == <<"site_name">>

\* metric_info.get('name', metric_key): the display name of the metric that
\* has an entry in metrics.yaml, the key itself otherwise.
DisplayName(key) ==
    IF key = InfoKey THEN <<"CPU", " ", "Utilization">> ELSE <<key>>

\* os.path.exists
Exists(path, fs) == \E f \in fs : f.path = path

\* fig.savefig(filepath): the file at filepath is created or replaced.
Write(fs, path, by) ==
    {f \in fs : f.path # path} \cup {[path |-> path, by |-> by]}

RECURSIVE WriteAll(_, _, _)
WriteAll(fs, paths, by) ==
    IF paths = <<>> THEN fs
    ELSE WriteAll(Write(fs, Head(paths), by), Tail(paths), by)

\* MetricsVisualizer.save_metric_plot
SavedPlotPath(server_name, name) ==
    <<OutputDir, SiteName,
      ReplaceSpaces(server_name) \o <<"_">> \o ReplaceSpaces(name)
          \o <<".png">>>>

\* MetricsVisualizer.create_dashboard
SavedDashboardPath(server_name) ==
    <<OutputDir, SiteName,
      ReplaceSpaces(server_name) \o <<"_dashboard_", "timestamp", ".png">>>>

\* generate_server_report: graph_path
GraphPath(server_name, metric_key) ==
    <<OutputDir, SiteName, ReplaceSpaces(server_name), <<metric_key, ".png">>>>

\* generate_server_report: dashboard_path
DashboardPath(server_name) ==
    <<OutputDir, SiteName, ReplaceSpaces(server_name), <<"dashboard.png">>>>

(***************************************************************************)
(* The server PDF.  The document is the list of the parts put into it.     *)
(***************************************************************************)
Part(kind, key) == [kind |-> kind, metric |-> key]

MissingImageRaises_Always == TRUE

\* The else branch of `if os.path.exists(graph_path)` is a body_text and
\* PDFReport.add_image returns False for a missing file: nothing is raised.
MissingImageRaises == FALSE

\* Chapter 2 after the first n metrics.
RECURSIVE MetricSections(_, _, _, _, _)
MetricSections(server_name, mds, n, results, fs) ==
    IF n = 0 THEN [parts |-> <<>>, raised |-> FALSE]
    ELSE LET before == MetricSections(server_name, mds, n - 1, results, fs)
             key    == mds[n].metric
             titled == Append(before.parts, Part("section_title", key))
         IN  IF before.raised THEN before
             ELSE IF key \notin DOMAIN results
             THEN [parts  |-> Append(titled, Part("no_analysis", key)),
                   raised |-> FALSE]
             ELSE IF Exists(GraphPath(server_name, key), fs)
             THEN [parts  |-> titled \o <<Part("analysis", key),
                                          Part("image", key)>>,
                   raised |-> FALSE]
             ELSE IF MissingImageRaises
             THEN [parts  |-> Append(titled, Part("analysis", key)),
                   raised |-> TRUE]
             ELSE [parts  |-> titled \o <<Part("analysis", key),
                                          Part("image_not_found", key)>>,
                   raised |-> FALSE]

\* ReportGenerator.generate_server_report
GenerateServerReport(server_name, mds, results, fs) ==
    LET chapter2 == MetricSections(server_name, mds, Len(mds), results, fs)
        chapter3 == IF Exists(DashboardPath(server_name), fs)
                    THEN <<Part("chapter", "dashboard"), Part("image", "dashboard")>>
                    ELSE IF MissingImageRaises
                    THEN <<Part("chapter", "dashboard")>>
                    ELSE <<Part("chapter", "dashboard"),
                           Part("image_not_found", "dashboard")>>
        raised3  == ~Exists(DashboardPath(server_name), fs) /\ MissingImageRaises
        chapter4 == <<Part("chapter", "conclusion")>>
    IN  IF chapter2.raised
        THEN [started |-> TRUE, parts |-> chapter2.parts, output_called |-> FALSE]
        ELSE IF raised3
        THEN [started |-> TRUE, parts |-> chapter2.parts \o chapter3,
              output_called |-> FALSE]
        ELSE [started |-> TRUE, parts |-> chapter2.parts \o chapter3 \o chapter4,
              output_called |-> TRUE]

(***************************************************************************)
(* The comprehensive report pipeline for one server with a non-empty fetch *)
(* result: analyse, visualise, dashboard, server PDF.                      *)
(***************************************************************************)
PdfFrames == {<<>>, <<<<0, 1>>>>}

PdfMetricLists ==
    UNION {[1..n -> [metric : MetricKeys, dps : PdfFrames]] : n \in 1..MaxMetrics}

PdfServerNames == {<<"a">>, <<"a", " ", "b">>}

\* Image files left at the paths the PDF reads, whoever put them there.
LeftOver(server_name, mds) ==
    {[path |-> GraphPath(server_name, mds[i].metric), by |-> <<>>] : i \in 1..Len(mds)}
        \cup {[path |-> DashboardPath(server_name), by |-> <<>>]}

InitPdf ==
    /\ metrics_data \in PdfMetricLists
    /\ \E name \in PdfServerNames :
         /\ server_names = <<name>>
         /\ files \in SUBSET LeftOver(name, metrics_data)
    /\ pdf = NoPdf
    /\ StatIdle
    /\ OrchIdle /\ ApiIdle /\ CliIdle /\ ChartIdle /\ GridIdle

\* analyze_multiple_metrics, then visualize_all_metrics: one chart file for
\* every metric that has points.
VisualizeAllMetrics ==
    /\ op = "none"
    /\ op' = "visualize_all_metrics"
    /\ ret' = AnalyzeMultipleMetrics(metrics_data, <<>>, <<>>)
    /\ LET with_data == SelectSeq(metrics_data, LAMBDA md : md.dps # <<>>)
           saved     == [i \in 1..Len(with_data) |->
                            SavedPlotPath(server_names[1],
                                          DisplayName(with_data[i].metric))]
       IN  files' = WriteAll(files, saved, server_names[1])
    /\ UNCHANGED <<df, threshold_warning, threshold_critical, period_days>>
    /\ UNCHANGED <<server_names, pdf>>
    /\ UNCHANGED <<orchVars, apiVars, cliVars, analysisVars, chartVars, gridVars>>

\* MetricsVisualizer.create_dashboard: raises for one metric, which ends the
\* server's iteration; otherwise the dashboard file is saved.
CreateDashboard ==
    /\ op = "visualize_all_metrics"
    /\ IF DashboardRaises(Comprehensive, Len(metrics_data))
       THEN op' = "failed" /\ files' = files
       ELSE /\ op' = "create_dashboard"
            /\ files' = Write(files, SavedDashboardPath(server_names[1]),
                              server_names[1])
    /\ UNCHANGED <<df, threshold_warning, threshold_critical, period_days, ret>>
    /\ UNCHANGED <<server_names, pdf>>
    /\ UNCHANGED <<orchVars, apiVars, cliVars, analysisVars, chartVars, gridVars>>

CallGenerateServerReport ==
    /\ op = "create_dashboard"
    /\ op' = "generate_server_report"
    /\ pdf' = GenerateServerReport(server_names[1], metrics_data, ret.results, files)
    /\ UNCHANGED <<df, threshold_warning, threshold_critical, period_days, ret>>
    /\ UNCHANGED <<server_names, files>>
    /\ UNCHANGED <<orchVars, apiVars, cliVars, analysisVars, chartVars, gridVars>>

NextPdf == VisualizeAllMetrics \/ CreateDashboard \/ CallGenerateServerReport

SpecPdf == InitPdf /\ [][NextPdf]_vars

\* The parts of a kind, in the order of the document.
PartsOf(doc, kind) == SelectSeq(doc, LAMBDA part : part.kind = kind)

\* C21: generate_server_report puts the placeholder note where the chart of
\* an analysed metric, or the dashboard, is missing, and goes on: every
\* metric gets its section in order, the dashboard chapter and the
\* conclusion chapter follow, and the document is written.
C21_MissingImageIsNoted ==
    op = "generate_server_report" =>
        LET server == server_names[1]
            titles == PartsOf(pdf.parts, "section_title")
        IN  /\ titles = [i \in 1..Len(metrics_data) |->
                            Part("section_title", metrics_data[i].metric)]
            /\ \A i \in 1..Len(metrics_data) :
                 (/\ metrics_data[i].metric \in DOMAIN ret.results
                  /\ ~Exists(GraphPath(server, metrics_data[i].metric), files))
                 => \E j \in 1..Len(pdf.parts) :
                       pdf.parts[j] = Part("image_not_found", metrics_data[i].metric)
            /\ ~Exists(DashboardPath(server), files) =>
                 \E j \in 1..Len(pdf.parts) :
                    pdf.parts[j] = Part("image_not_found", "dashboard")
            /\ PartsOf(pdf.parts, "chapter") =
                 <<Part("chapter", "dashboard"), Part("chapter", "conclusion")>>
            /\ pdf.parts[Len(pdf.parts)] = Part("chapter", "conclusion")
            /\ pdf.output_called

\* The chart of the first metric is missing, that of the second is there,
\* the dashboard is missing, and the document is complete.
C21_Witness ==
    /\ op = "generate_server_report" /\ Len(metrics_data) = 2
    /\ metrics_data[1].metric # metrics_data[2].metric
    /\ metrics_data[1].dps # <<>> /\ metrics_data[2].dps # <<>>
    /\ ~Exists(GraphPath(server_names[1], metrics_data[1].metric), files)
    /\ Exists(GraphPath(server_names[1], metrics_data[2].metric), files)
    /\ ~Exists(DashboardPath(server_names[1]), files)
    /\ pdf.parts =
         <<Part("section_title", metrics_data[1].metric),
           Part("analysis", metrics_data[1].metric),
           Part("image_not_found", metrics_data[1].metric),
           Part("section_title", metrics_data[2].metric),
           Part("analysis", metrics_data[2].metric),
           Part("image", metrics_data[2].metric),
           Part("chapter", "dashboard"),
           Part("image_not_found", "dashboard"),
           Part("chapter", "conclusion")>>
    /\ pdf.output_called

\* C28: in the pipeline the visualizer saves each chart and the dashboard at
\* the path generate_server_report reads it from, so the document embeds
\* the image the run rendered for every metric with data.
C28_SavedWhereRead ==
    op = "generate_server_report" =>
        LET server == server_names[1]
        IN  /\ SavedDashboardPath(server) = DashboardPath(server)
            /\ \A i \in 1..Len(metrics_data) :
                 metrics_data[i].dps # <<>> =>
                    /\ SavedPlotPath(server, DisplayName(metrics_data[i].metric))
                         = GraphPath(server, metrics_data[i].metric)
                    /\ [path |-> GraphPath(server, metrics_data[i].metric),
                        by |-> server] \in files
                    /\ \E j \in 1..Len(pdf.parts) :
                          pdf.parts[j] = Part("image", metrics_data[i].metric)


(***************************************************************************)
(* The artifacts of the servers of one site, written server after server   *)
(* by a reporting orchestrator.  Every server is asked for the same        *)
(* metrics and returns points for each of them.                            *)
(***************************************************************************)
RequestedKeys == <<"CpuUtilization", "MemUsage">>

\* create_improved_dashboard: server_dir and filepath
RangeDashboardPath(server_name) ==
    <<OutputDir, SiteName, ReplaceSpaces(server_name),
      ReplaceSpaces(server_name) \o <<"_dashboard_", "start_to_end", ".png">>>>

\* create_individual_metrics: server_dir and filepath
RangeMetricPath(server_name, key) ==
    <<OutputDir, SiteName, ReplaceSpaces(server_name),
      <<key, "_", "start_to_end", ".png">>>>

\* generate_site_report: report_dir, server_dir and filepath
ScheduledMetricPath(server_name, key) ==
    <<OutputDir, SiteName, <<"report_timestamp">>, ReplaceSpaces(server_name),
      <<key, ".png">>>>

\* The directory made for the server.
ServerDir(o, server_name) ==
    IF o = DateRange
    THEN <<OutputDir, SiteName, ReplaceSpaces(server_name)>>
    ELSE <<OutputDir, SiteName, <<"report_timestamp">>, ReplaceSpaces(server_name)>>

\* The files one iteration of the server loop writes, in order.
Artifacts(o, server_name) ==
    IF o = DateRange
    THEN <<RangeDashboardPath(server_name)>>
           \o [i \in 1..Len(RequestedKeys) |->
                 RangeMetricPath(server_name, RequestedKeys[i])]
    ELSE [i \in 1..Len(RequestedKeys) |->
             ScheduledMetricPath(server_name, RequestedKeys[i])]
           \o <<SavedDashboardPath(server_name)>>

\* The servers of a site, under configured names that differ.
InitPaths ==
    /\ orch \in Reporting
    /\ server_names \in {names \in [1..2 -> ServerNames] : names[1] # names[2]}
    /\ files = {} /\ pdf = NoPdf
    /\ pc = "server" /\ k = 1
    /\ nSites = 0 /\ sidx = 0 /\ site = NoSite
    /\ server_success = 0 /\ success_count = 0 /\ attempted = <<>>
    /\ outcome = "none" /\ valid_seen = FALSE /\ rendered_seen = FALSE
    /\ skipped_sites = 0
    /\ registered = 0 /\ site_filter = NoFilter /\ target_sites = <<>>
    /\ fetched_sites = {} /\ summary = NoSummary
    /\ ApiIdle /\ CliIdle /\ StatIdle /\ AnalysisIdle /\ ChartIdle /\ GridIdle

\* One iteration of the server loop: the charts and the dashboard of the
\* server are saved.
ReportServer ==
    /\ pc = "server" /\ k <= Len(server_names)
    /\ files' = WriteAll(files, Artifacts(orch, server_names[k]), server_names[k])
    /\ attempted' = Append(attempted, k)
    /\ k' = k + 1
    /\ UNCHANGED <<orch, nSites, sidx, site, pc, server_success, success_count,
                   outcome, valid_seen, rendered_seen, skipped_sites, registered,
                   site_filter, target_sites, fetched_sites, summary>>
    /\ UNCHANGED <<server_names, pdf>>
    /\ UNCHANGED <<apiVars, cliVars, statVars, analysisVars, chartVars, gridVars>>

NextPaths == ReportServer

SpecPaths == InitPaths /\ [][NextPaths]_vars

\* C24: two servers of a site with different configured names get different
\* directories, and after both were reported every artifact of the first is
\* still the file the first one's iteration wrote.
C24_ServerArtifactsDisjoint ==
    k > 2 =>
        /\ ServerDir(orch, server_names[1]) # ServerDir(orch, server_names[2])
        /\ \A i \in 1..Len(Artifacts(orch, server_names[1])) :
              [path |-> Artifacts(orch, server_names[1])[i],
               by |-> server_names[1]] \in files


(***************************************************************************)
(* The grid of the two dashboard builders, create_improved_dashboard       *)
(* (date_range_report.py) and MetricsVisualizer.create_dashboard.  Metric  *)
(* positions and cells count from 0 as in the code.                        *)
(***************************************************************************)
MaxGridMetrics == 5

MaxCols == 3

ImprovedDashboard   == "create_improved_dashboard"
VisualizerDashboard == "create_dashboard"
DashboardBuilders   == {ImprovedDashboard, VisualizerDashboard}

GridMetricLists ==
    UNION {[1..n -> [metric : {InfoKey}, dps : PdfFrames]] : n \in 1..MaxGridMetrics}

\* cols = min(3, num_metrics)
GridCols(n) == IF n < MaxCols THEN n ELSE MaxCols

\* rows = (num_metrics + cols - 1) // cols
GridRows(n) == (n + GridCols(n) - 1) \div GridCols(n)

\* `import numpy as np`: date_range_report.py has it, visualizer.py has not.
NumpyImported(builder) == builder = ImprovedDashboard

\* ax = axes[i // cols, i % cols] on a grid of several rows and columns,
\* axes[i] on the flattened (row-major) single row otherwise.
AxesCell(i, rows, cols) ==
    IF rows > 1 /\ cols > 1 THEN <<i \div cols, i % cols>> ELSE <<0, i>>

BuildDashboard(builder, mds) ==
    LET num_metrics == Len(mds)
        cols == GridCols(num_metrics)
        rows == GridRows(num_metrics)
    IN  IF rows = 1 /\ cols = 1 /\ ~NumpyImported(builder)
        THEN [called |-> TRUE, builder |-> builder, raised |-> TRUE,
              cols |-> cols, rows |-> rows, drawn |-> {}, removed |-> {}]
        ELSE [called |-> TRUE, builder |-> builder, raised |-> FALSE,
              cols |-> cols, rows |-> rows,
              drawn |-> {[i |-> i, cell |-> AxesCell(i, rows, cols)] :
                            i \in {j \in 0..(num_metrics - 1) :
                                      j < rows * cols /\ mds[j + 1].dps # <<>>}},
              removed |-> {AxesCell(i, rows, cols) :
                              i \in num_metrics..(rows * cols - 1)}]

InitGrid ==
    /\ metrics_data \in GridMetricLists
    /\ dashboard \in {[called |-> FALSE, builder |-> b] : b \in DashboardBuilders}
    /\ OrchIdle /\ ApiIdle /\ CliIdle /\ StatIdle /\ ChartIdle /\ FileIdle

CallDashboardBuilder ==
    /\ ~dashboard.called
    /\ dashboard' = BuildDashboard(dashboard.builder, metrics_data)
    /\ UNCHANGED <<orchVars, apiVars, cliVars, statVars, analysisVars, chartVars,
                   fileVars>>

NextGrid == CallDashboardBuilder

SpecGrid == InitGrid /\ [][NextGrid]_vars

\* C23: for every number n >= 1 of metrics both builders complete, with
\* cols = min(3, n) and rows = ceil(n / cols); every metric that has points
\* is drawn in the cell (i div cols, i mod cols), a cell of its own inside
\* the grid, and the cells removed are those after the last metric, fewer
\* than cols of them.
C23_GridHoldsEveryMetric ==
    dashboard.called =>
        LET n == Len(metrics_data)
        IN  /\ ~dashboard.raised
            /\ dashboard.cols = (IF n < 3 THEN n ELSE 3)
            /\ (dashboard.rows - 1) * dashboard.cols < n
            /\ n <= dashboard.rows * dashboard.cols
            /\ \A i \in 0..(n - 1) :
                 metrics_data[i + 1].dps # <<>> =>
                    [i |-> i, cell |-> <<i \div dashboard.cols, i % dashboard.cols>>]
                        \in dashboard.drawn
            /\ \A d \in dashboard.drawn :
                 /\ d.cell[1] < dashboard.rows /\ d.cell[2] < dashboard.cols
                 /\ d.cell \notin dashboard.removed
            /\ Cardinality(dashboard.removed) = dashboard.rows * dashboard.cols - n
            /\ Cardinality(dashboard.removed) < dashboard.cols


(***************************************************************************)
(* calculate_statistics on series with missing values.                     *)
(***************************************************************************)
NaNFrames ==
    UNION {{d \in [1..n -> UNION {{<<t>>} \cup {<<t, v>> : v \in 0..MaxVal}
                                      : t \in 0..(n - 1)}] :
               \A i \in 1..n : d[i][1] = i - 1}
           : n \in 0..MaxLen}

InitNaN ==
    /\ df \in NaNFrames
    /\ threshold_warning = <<>> /\ threshold_critical = <<>>
    /\ period_days = 0 /\ op = "none" /\ ret = Absent
    /\ OrchIdle /\ ApiIdle /\ CliIdle /\ AnalysisIdle /\ ChartIdle /\ FileIdle /\ GridIdle

NextNaN == CallCalculateStatistics

SpecNaN == InitNaN /\ [][NextNaN]_vars

HasNaN(d) == \E i \in 1..Len(d) : IsNaN(d[i])

\* C25: the statistics of a series with NaN points are those of the series
\* without them: count, min, max, mean, median and the percentiles.
C25_NaNExcluded ==
    (op = "calculate_statistics" /\ HasNaN(df) /\ SkipNaN(df) # <<>>) =>
        LET clean == CalculateStatistics(SkipNaN(df))
        IN  /\ ~ret.absent /\ ~ret.nan
            /\ ret.count = clean.count
            /\ ret.min = clean.min /\ ret.max = clean.max
            /\ ret.sum * clean.values = clean.sum * ret.values
            /\ ret.median = clean.median
            /\ ret.percentile_10 = clean.percentile_10
            /\ ret.percentile_25 = clean.percentile_25
            /\ ret.percentile_75 = clean.percentile_75
            /\ ret.percentile_90 = clean.percentile_90
            /\ ret.percentile_95 = clean.percentile_95
            /\ ret.percentile_99 = clean.percentile_99


\* C29: for every series with points, unit and metric name, the Y bounds
\* given to the axes satisfy 0 <= bottom < top.
C29_YAxisNeverEmpty ==
    op = "drawn" =>
        /\ ~FracLess(plot.ylim[1], <<0, 1>>)
        /\ FracLess(plot.ylim[1], plot.ylim[2])


\* C30: when compare_time_periods returns a result for period_days >= 1,
\* each of the two periods has a point, the latest date of the series is
\* the end of the current period, the earliest is the start of the previous
\* one, and the previous period ends before the current one starts.
C30_BothPeriodsPopulated ==
    (op = "compare_time_periods" /\ period_days >= 1 /\ ~ret.absent) =>
        /\ ret.current_period.count >= 1
        /\ ret.previous_period.count >= 1
        /\ ret.current_period.end_date = DateOf(SetMax(TimesOf(df)))
        /\ ret.previous_period.start_date = DateOf(SetMin(TimesOf(df)))
        /\ ret.previous_period.end_date < ret.current_period.start_date
        /\ ret.current_period.start_date <= ret.current_period.end_date
        /\ ret.previous_period.start_date <= ret.previous_period.end_date

\* Two points exactly 2 * period_days apart: one in each period.
C30_Witness ==
    /\ op = "compare_time_periods" /\ period_days = 2 /\ ~ret.absent
    /\ Len(df) = 2
    /\ DateOf(df[2][1]) = DateOf(df[1][1]) + 4
    /\ ret.current_period.count = 1 /\ ret.previous_period.count = 1
    /\ ret.current_period.start_date = DateOf(df[2][1])
    /\ ret.previous_period.end_date = DateOf(df[1][1])
====
